---- MODULE Spec2Model ----
(***************************************************************************)
(* Model of the command engine of twistedActor: the command state machine  *)
(* (command.py, BaseCmd), command linking (command.py, LinkCommands) and   *)
(* the priority command queue (commandQueue.py, CommandQueue).             *)
(*                                                                         *)
(* Everything runs on one event loop: an action of the model is one call   *)
(* from the event loop (or from the owner of the commands) together with   *)
(* every callback that runs synchronously inside it.                       *)
(***************************************************************************)
EXTENDS Integers, Sequences, FiniteSets, TLC

VARIABLES
    cmds,        \* the command objects: id -> [state, textMsg, hubMsg, cmdStr, cmdVerb, callbacks]
    cmdQueue,    \* CommandQueue.cmdQueue: sequence of ids of the queued commands
    currExeCmd,  \* CommandQueue.currExeCmd: id of the command started last (0: the dummy)
    queueTimer,  \* CommandQueue.queueTimer is pending
    enabled,     \* CommandQueue._enabled
    ruleDict,    \* CommandQueue.ruleDict: <<new verb, queued verb>> -> action
    priorityDict,\* CommandQueue.priorityDict: verb -> priority
    killed,      \* the killFunc invocations: <<command killed, command being added>>
    runCount,    \* id -> number of invocations of the command's runFunc
    linkCalls,   \* number of mainCmd.setState calls made by the link
    swallowed,   \* number of exceptions caught by safeCall in callbacks
    lastCall,    \* the call made by the last step: [op, cmd, raised]
    rcd,         \* RunCmdDict: [userCmd, cmdDict, devCmdDict, failSlotDict, callFunc, newState,
                 \*              raisedFor]
    cbLog,       \* the probe callbacks called in the last step, in order: <<command, probe>>
    dev          \* a device, its connection and the ConnectDevice or DisconnectDevice at work

vars == <<cmds, cmdQueue, currExeCmd, queueTimer, enabled, ruleDict, priorityDict,
          killed, runCount, linkCalls, swallowed, lastCall, rcd, cbLog, dev>>

----------------------------------------------------------------------------
(* Bounds *)

NumCmds == 2      \* commands of the bare state machine specification
NumSubs == 3      \* sub-commands of a link
NumSlots == 3     \* slots of a device set
MaxCmds == 3      \* commands added to the queue in one behaviour
MaxRules == 2     \* collision rules registered in one behaviour
MaxSwallowed == 2 \* exceptions caught in callbacks in one behaviour of the tracking specification
MaxChain == 2     \* follow-up commands that a callFunc starts for one slot

----------------------------------------------------------------------------
(* BaseCmd: states                                                         *)

Done == "done"
Cancelled == "cancelled"
Failed == "failed"
Ready == "ready"
Running == "running"
Cancelling == "cancelling"
Failing == "failing"

ActiveStates == {Running, Cancelling, Failing}
FailedStates == {Cancelled, Failed}
DoneStates == {Done} \cup FailedStates
AllStates == {Ready} \cup ActiveStates \cup DoneStates

\* Python's None, and str() of a message argument
PyNone == "<None>"
Str(m) == IF m = PyNone THEN "None" ELSE m

IsDoneState(s) == s \in DoneStates
IsDone(w, c) == IsDoneState(w.cmds[c].state)
DidFail(w, c) == w.cmds[c].state \in FailedStates
IsActive(w, c) == w.cmds[c].state \in ActiveStates

\* BaseCmd.__init__: a new command is Ready, has empty messages, no callbacks, tracks
\* no command (cmdToTrack = 0), has no time limit and no pending timeout timer
NewCmd(cmdStr, verb) ==
    [state |-> Ready, textMsg |-> "", hubMsg |-> "", cmdStr |-> cmdStr,
     cmdVerb |-> verb, callbacks |-> <<>>, cmdToTrack |-> 0, timeLim |-> FALSE,
     timer |-> FALSE]

\* The part of the program state that a setState call (and the callbacks it
\* runs) can change, as one value; depth is the number of setState calls on the call
\* stack, and with trace set each successful setState call is recorded in cbLog as
\* <<depth, command, 0>>, before the probe callbacks it calls (<<depth, command, probe>>).
\* adds holds the commands that callbacks have given to addCmd during the call.
World ==
    [cmds |-> cmds, queueTimer |-> queueTimer, enabled |-> enabled,
     linkCalls |-> linkCalls, swallowed |-> swallowed, rcd |-> rcd, cbLog |-> cbLog,
     dev |-> dev, depth |-> 0, trace |-> FALSE, adds |-> <<>>]

Commit(w) ==
    /\ cmds' = w.cmds
    /\ queueTimer' = w.queueTimer
    /\ enabled' = w.enabled
    /\ linkCalls' = w.linkCalls
    /\ swallowed' = w.swallowed
    /\ rcd' = w.rcd
    /\ cbLog' = w.cbLog
    /\ dev' = w.dev

----------------------------------------------------------------------------
(* Callbacks.  A callback registered on a command is one of               *)
(*   "link":  LinkCommands.subCmdCallback of the link                      *)
(*   "sched": CommandQueue.scheduleRunQueue                                *)
(*   "user":  a callback of the owner: once the command is done it sets    *)
(*            the command `target' to `newState'                           *)
(*   "probe": a callback of the owner that does nothing                    *)
(*   "finish": a callback of the owner that ends the command it is on      *)

LinkCb == [kind |-> "link", target |-> 0, newState |-> ""]
\* RunCmdDict: devCmdCallback and newDevCmdCallback of a slot
DevCmdCb(slot) == [kind |-> "devCmd", target |-> slot, newState |-> ""]
NewDevCmdCb(slot) == [kind |-> "newDevCmd", target |-> slot, newState |-> ""]
SchedCb == [kind |-> "sched", target |-> 0, newState |-> ""]
UserCb(target, newState) == [kind |-> "user", target |-> target, newState |-> newState]
\* BaseCmd._cmdCallback of the command `tracker', registered on the command it tracks
TrackCb(tracker) == [kind |-> "track", target |-> tracker, newState |-> ""]
\* a callback of the owner that only records that it was called
ProbeCb(id) == [kind |-> "probe", target |-> id, newState |-> ""]
\* a callback of the owner that ends the command Done once it is Running
FinishCb == [kind |-> "finish", target |-> 0, newState |-> ""]

\* LinkCommands: mainCmd and subCmdList of the link
LinkMain == 0
LinkSubs == [i \in 1..NumSubs |-> i]

\* setState without the check for a finished command
SetStateRaisesUnknownOnly(w, c, newState) ==
    newState \notin AllStates

\* BaseCmd.setState raises RuntimeError
SetStateRaises(w, c, newState) ==
    IsDone(w, c) \/ newState \notin AllStates

\* a link that finishes as soon as one sub-command is done
SomeSubDone(w) ==
    \E i \in DOMAIN LinkSubs : IsDone(w, LinkSubs[i])

\* LinkCommands.subCmdCallback: the test "all sub-commands are done"
AllSubsDone(w) ==
    \A i \in DOMAIN LinkSubs : IsDone(w, LinkSubs[i])

\* LinkCommands.subCmdCallback: the state the main command is set to
LinkState(w) ==
    IF \E i \in DOMAIN LinkSubs : DidFail(w, LinkSubs[i]) THEN Failed ELSE Done

RECURSIVE FailedCmdsStr(_, _)
\* the failedCmds list of subCmdCallback as text: (cmdStr, fullState) of each failed sub-command
FailedCmdsStr(w, i) ==
    IF i > Len(LinkSubs) THEN ""
    ELSE (IF DidFail(w, LinkSubs[i])
            THEN "(" \o w.cmds[LinkSubs[i]].cmdStr \o ", (" \o w.cmds[LinkSubs[i]].state
                 \o ", " \o w.cmds[LinkSubs[i]].textMsg \o ", " \o w.cmds[LinkSubs[i]].hubMsg \o "))"
            ELSE "")
         \o FailedCmdsStr(w, i + 1)

LinkTextMsg(w) ==
    IF \E i \in DOMAIN LinkSubs : DidFail(w, LinkSubs[i])
    THEN "Sub-command(s) failed: " \o FailedCmdsStr(w, 1)
    ELSE ""

\* a callback that never starts the queue timer
NeverSchedule(w, c) == w

\* CommandQueue.scheduleRunQueue(cmd) used as a command callback
ScheduleRunQueue(w, c) ==
    IF ~w.enabled THEN w
    ELSE IF ~IsDone(w, c) THEN w
    ELSE [w EXCEPT !.queueTimer = TRUE]

RECURSIVE SetState(_, _, _, _, _)
RECURSIVE RunCallbacks(_, _, _)
RECURSIVE CallCallback(_, _, _)

\* RO.AddCallback.safeCall: an exception raised by a callback is caught (and printed)
SafeCall(res) ==
    IF res.raised THEN [res.w EXCEPT !.swallowed = @ + 1] ELSE res.w

\* LinkCommands.subCmdCallback
SubCmdCallback(w) ==
    IF ~AllSubsDone(w) THEN [w |-> w, raised |-> FALSE]
    ELSE SetState([w EXCEPT !.linkCalls = @ + 1], LinkMain, LinkState(w), LinkTextMsg(w), "")

\* the owner's callback on command c: when c is done, set the state of cb.target
UserCallback(w, c, cb) ==
    IF ~IsDone(w, c) THEN [w |-> w, raised |-> FALSE]
    ELSE SetState(w, cb.target, cb.newState, "", "")

\* the name of a slot, and the names of a set of slots joined by ", " in slot order
SlotName(slot) == "slot" \o ToString(slot)
RECURSIVE JoinSlots(_, _)
JoinSlots(slots, from) ==
    IF \A s \in slots : s < from THEN ""
    ELSE IF from \in slots
         THEN SlotName(from) \o (IF \E s \in slots : s > from THEN ", " ELSE "")
                  \o JoinSlots(slots, from + 1)
         ELSE JoinSlots(slots, from + 1)

\* BaseCmd.getMsg: the message of the command
GetMsg(w, c) == w.cmds[c].textMsg

\* RunCmdDict.checkDone: the slots the loop over devCmdDict visits (up to the first
\* command that is not done, where it returns)
SlotsVisited(w) ==
    LET dd == w.rcd.devCmdDict
    IN {s \in DOMAIN dd : \A t \in DOMAIN dd : t < s => IsDone(w, dd[t])}

\* a fan-out that waits for no slot
NoSlotPending(w) == FALSE

\* RunCmdDict.checkDone: the loop returns because a device command is not done
SomeSlotPending(w) ==
    \E s \in DOMAIN w.rcd.devCmdDict : ~IsDone(w, w.rcd.devCmdDict[s])

\* RunCmdDict.checkDone: the text message of the failed user command; every entry of
\* errList is the message of the command the loop over devCmdDict visited last
CheckDoneErrMsg(w) ==
    LET dd == w.rcd.devCmdDict
        last == CHOOSE s \in DOMAIN dd : \A t \in DOMAIN dd : t <= s
    IN "'" \o w.cmds[w.rcd.userCmd].cmdStr \o "' failed for "
           \o JoinSlots(DOMAIN w.rcd.failSlotDict, 1) \o ": " \o GetMsg(w, dd[last])

\* RunCmdDict.checkDone
CheckDone(w) ==
    LET dd == w.rcd.devCmdDict
        fsd == w.rcd.failSlotDict
        failed == {s \in SlotsVisited(w) : DidFail(w, dd[s])}
        w1 == [w EXCEPT !.rcd.failSlotDict =
                  [s \in DOMAIN fsd \cup failed |-> IF s \in failed THEN dd[s] ELSE fsd[s]]]
    IN IF SomeSlotPending(w1) THEN [w |-> w1, raised |-> FALSE]
       ELSE IF IsDone(w1, w1.rcd.userCmd) THEN [w |-> w1, raised |-> FALSE]
       ELSE IF DOMAIN w1.rcd.failSlotDict # {}
            THEN SetState(w1, w1.rcd.userCmd, Failed, CheckDoneErrMsg(w1), "")
            ELSE SetState(w1, w1.rcd.userCmd, Done, "", "")

\* the id of the command that callFunc starts for a slot
NewDevCmdId(slot) == NumSlots + slot

\* the id of the next follow-up command that callFunc starts for a slot; 0 when
\* callFunc has started MaxChain commands for the slot
ChainCmdId(w, slot) ==
    LET free == {k \in 1..MaxChain : k * NumSlots + slot \notin DOMAIN w.cmds}
    IN IF free = {} THEN 0
       ELSE (CHOOSE k \in free : \A j \in free : k <= j) * NumSlots + slot

\* assignment d[k] = v in a dict
DictSet(d, k, v) == [x \in DOMAIN d \cup {k} |-> IF x = k THEN v ELSE d[x]]

\* RunCmdDict.__init__: what callFunc does in devCmdCallback.  callFunc is one of
\*   "none":   no callFunc was given
\*   "ignore": callFunc returns None
\*   "retry":  callFunc starts and returns a new device command if the command failed
\*   "raise":  callFunc raises an exception
\*   "chain":  callFunc starts and returns a follow-up device command if the command
\*             did not fail, up to MaxChain commands for a slot
CallFuncBody(w, c, slot) ==
    CASE w.rcd.callFunc \in {"none", "ignore"} -> w
      [] w.rcd.callFunc = "retry" ->
            IF ~DidFail(w, c) THEN w
            ELSE LET n == NewDevCmdId(slot)
                     newDevCmd == [NewCmd("init", "") EXCEPT !.state = w.rcd.newState,
                                                            !.callbacks = <<NewDevCmdCb(slot)>>]
                 IN [w EXCEPT !.cmds = @ @@ (n :> newDevCmd),
                              !.rcd.devCmdDict = DictSet(@, slot, n)]
      [] w.rcd.callFunc = "raise" ->
            [w EXCEPT !.rcd.failSlotDict = DictSet(@, slot, c),
                      !.rcd.raisedFor = @ \cup {slot}]
      [] w.rcd.callFunc = "chain" ->
            IF DidFail(w, c) \/ ChainCmdId(w, slot) = 0 THEN w
            ELSE LET n == ChainCmdId(w, slot)
                     newDevCmd == [NewCmd("next", "") EXCEPT !.state = w.rcd.newState,
                                                            !.callbacks = <<NewDevCmdCb(slot)>>]
                 IN [w EXCEPT !.cmds = @ @@ (n :> newDevCmd),
                              !.rcd.devCmdDict = DictSet(@, slot, n)]

\* the record of the calls of callFunc: the commands it was called with, and those
\* it was called with while they were not done
NoteCall(w, c) ==
    [w EXCEPT !.rcd.called = @ \cup {c},
              !.rcd.early = IF IsDone(w, c) THEN @ ELSE @ \cup {c}]

\* RunCmdDict.__init__: `if callFunc:' and the call of callFunc in devCmdCallback
CallCallFunc(w, c, slot) ==
    IF w.rcd.callFunc = "none" THEN w
    ELSE CallFuncBody(NoteCall(w, c), c, slot)

\* RunCmdDict.__init__: devCmdCallback(devCmd) of a slot
DevCmdCallback(w, c, cb) ==
    LET slot == cb.target
        w1 == IF DidFail(w, c) THEN [w EXCEPT !.rcd.failSlotDict = DictSet(@, slot, c)] ELSE w
        w2 == [w1 EXCEPT !.rcd.devCmdDict = DictSet(@, slot, c)]
    IN CheckDone(CallCallFunc(w2, c, slot))

\* RunCmdDict.__init__: newDevCmdCallback(devCmd) of a slot
NewDevCmdCallback(w, c, cb) ==
    CheckDone([w EXCEPT !.rcd.devCmdDict = DictSet(@, cb.target, c)])

\* a callback of the owner on command c: when c is Running, end it Done
FinishCallback(w, c) ==
    IF w.cmds[c].state # Running THEN [w |-> w, raised |-> FALSE]
    ELSE SetState(w, c, Done, "", "")

\* a tracking callback that copies the state without the messages
CmdCallbackStateOnly(w, c, cb) ==
    SetState(w, cb.target, w.cmds[c].state, "", "")

\* BaseCmd._cmdCallback(cmdToTrack) of the command cb.target, called with the tracked
\* command c
CmdCallback(w, c, cb) ==
    SetState(w, cb.target, w.cmds[c].state, w.cmds[c].textMsg, w.cmds[c].hubMsg)

\* the states of the connection of a device (dev.conn)
Connected == "Connected"
Connecting == "Connecting"
Disconnecting == "Disconnecting"
Disconnected == "Disconnected"
ConnFailed == "Failed"
ConnStates == {Connected, Connecting, Disconnecting, Disconnected, ConnFailed}
\* a connection that never reports that it is connected
ConnNeverConnected(w) == FALSE
\* conn.isConnected, conn.isDone, conn.mayConnect
ConnIsConnected(w) == w.dev.conn = Connected
ConnIsDone(w) == w.dev.conn \in {Connected, Disconnected, ConnFailed}
ConnMayConnect(w) == w.dev.conn \in {Disconnected, ConnFailed}

\* a device on which no ConnectDevice or DisconnectDevice has been made:
\*   conn         the state of dev.conn
\*   op           "connect" for a ConnectDevice, "disconnect" for a DisconnectDevice
\*   stateCb      connCallback is a state callback of the connection
\*   timeLim      the object has a time limit
\*   connTimer    _connTimer is pending
\*   nFinish      the number of pending timers Timer(0, self.finish)
\*   initCmd      the user command given to dev.init (0: none)
\*   nInit, nConnect, nDisconnect   the calls of dev.init, conn.connect, conn.disconnect
\*   cleanedUp    dev.cleanup was called
\*   startConn    the state of the connection when the object was made
\*   discEarly    conn.disconnect was called while the init command was not done
NoDev ==
    [conn |-> Disconnected, op |-> "none", stateCb |-> FALSE, timeLim |-> FALSE,
     connTimer |-> FALSE, nFinish |-> 0, initCmd |-> 0,
     nInit |-> 0, nConnect |-> 0, nDisconnect |-> 0, cleanedUp |-> FALSE,
     startConn |-> Disconnected, discEarly |-> FALSE]

\* the callbacks of the init user command of a ConnectDevice and of a DisconnectDevice
ConnInitCb == [kind |-> "connInit", target |-> 0, newState |-> ""]
DiscInitCb == [kind |-> "discInit", target |-> 0, newState |-> ""]

\* ConnectDevice.initCallback(userCmd)
ConnectInitCallback(w, c) ==
    IF ~IsDone(w, c) THEN w
    ELSE [w EXCEPT !.dev.nFinish = @ + 1]

\* conn.disconnect(): a connection that is connected or connecting starts to disconnect
ConnDisconnect(w) ==
    [w EXCEPT !.dev.nDisconnect = @ + 1,
              !.dev.conn = IF @ \in {Connected, Connecting} THEN Disconnecting ELSE @,
              !.dev.discEarly = @ \/ (w.dev.initCmd # 0 /\ ~IsDone(w, w.dev.initCmd))]

\* DisconnectDevice.initCallback(initUserCmd); c is 0 for a call without a command
DisconnectInitCallback(w, c) ==
    IF ConnIsDone(w) /\ ~ConnIsConnected(w)
    THEN [w EXCEPT !.dev.nFinish = @ + 1]
    ELSE ConnDisconnect([w EXCEPT !.dev.connTimer = IF w.dev.timeLim THEN TRUE ELSE @,
                                  !.dev.stateCb = TRUE])

\* a device on which a RunCmdList is at work (dev of the list specification):
\*   conn          the state of dev.conn
\*   cmdList       the number of commands of the list; command i has cmdStr "cmd" i
\*   nextIdx       the position of cmdStrIter: the index of the command that next() gives
\*   pendingStart  the index of the command of the pending Timer(0, self._startCmd, cmdStr), or 0
\*   started       <<index, device command>> for each call of dev.startCmd, in call order
\*   hasUserCmd    userCmd is the user command, not None
\*   calls         the device commands that callFunc was called with, in call order
\*   made          a RunCmdList was made
NoRcl(conn) ==
    [conn |-> conn, cmdList |-> 0, nextIdx |-> 1, pendingStart |-> 0, started |-> <<>>,
     hasUserCmd |-> FALSE, calls |-> <<>>, made |-> FALSE]

\* the callback of the device commands of a RunCmdList
ListCb == [kind |-> "list", target |-> 0, newState |-> ""]

\* a RunCmdList that goes on at every state change of its device command
ListCmdChanged(w, c) == TRUE

\* RunCmdList.cmdCallback: the test "devCmd.isDone"
ListCmdEnded(w, c) == IsDone(w, c)

\* RunCmdList.finish(devCmd); the result is the new world and whether the call raised
RclFinish(w, c) ==
    IF ~IsDone(w, c) THEN [w |-> w, raised |-> TRUE]
    ELSE IF ~w.dev.hasUserCmd
    THEN [w |-> [w EXCEPT !.dev.calls = Append(@, c)], raised |-> FALSE]
    ELSE IF DidFail(w, c)
    THEN SetState([w EXCEPT !.dev.calls = Append(@, c)], 0, Failed,
                  w.cmds[c].textMsg, w.cmds[c].hubMsg)
    ELSE SetState([w EXCEPT !.dev.calls = Append(@, c)], 0, Done, "", "")

\* RunCmdList.cmdCallback(devCmd); the result is the new world and whether the call raised
ListCmdCallback(w, c) ==
    IF ~ListCmdEnded(w, c) THEN [w |-> w, raised |-> FALSE]
    ELSE IF DidFail(w, c) THEN RclFinish(w, c)
    ELSE IF w.dev.nextIdx > w.dev.cmdList THEN RclFinish(w, c)
    ELSE [w |-> [w EXCEPT !.dev.pendingStart = w.dev.nextIdx, !.dev.nextIdx = @ + 1],
          raised |-> FALSE]

\* a callback of the owner that, when the command has failed, gives a new command
\* with the same verb to addCmd
RequeueCb == [kind |-> "requeue", target |-> 0, newState |-> ""]

\* the callback RequeueCb, called with command c, for a verb that has no Immediate
\* priority and no rule: addCmd changes no command, inserts the new command in the
\* queue and calls scheduleRunQueue
RequeueCallback(w, c) ==
    IF ~DidFail(w, c) THEN w
    ELSE [w EXCEPT !.cmds = @ @@ (Cardinality(DOMAIN w.cmds) :>
                                     [state |-> Ready, textMsg |-> "", hubMsg |-> "",
                                      cmdStr |-> w.cmds[c].cmdStr, cmdVerb |-> w.cmds[c].cmdVerb,
                                      callbacks |-> <<>>, cmdToTrack |-> 0, timeLim |-> FALSE,
                                      timer |-> FALSE]),
                  !.adds = Append(@, Cardinality(DOMAIN w.cmds)),
                  !.queueTimer = IF w.enabled THEN TRUE ELSE @]

\* one callback cb of command c is called with c
CallCallback(w, c, cb) ==
    CASE cb.kind = "link" -> SafeCall(SubCmdCallback(w))
      [] cb.kind = "devCmd" -> SafeCall(DevCmdCallback(w, c, cb))
      [] cb.kind = "newDevCmd" -> SafeCall(NewDevCmdCallback(w, c, cb))
      [] cb.kind = "sched" -> ScheduleRunQueue(w, c)
      [] cb.kind = "user" -> SafeCall(UserCallback(w, c, cb))
      [] cb.kind = "probe" -> [w EXCEPT !.cbLog = Append(@, <<w.depth, c, cb.target>>)]
      [] cb.kind = "finish" -> SafeCall(FinishCallback(w, c))
      [] cb.kind = "track" -> SafeCall(CmdCallback(w, c, cb))
      [] cb.kind = "requeue" -> SafeCall([w |-> RequeueCallback(w, c), raised |-> FALSE])
      [] cb.kind = "list" -> SafeCall(ListCmdCallback(w, c))
      [] cb.kind = "connInit" -> SafeCall([w |-> ConnectInitCallback(w, c), raised |-> FALSE])
      [] cb.kind = "discInit" -> SafeCall([w |-> DisconnectInitCallback(w, c), raised |-> FALSE])

\* callbacks called from the last one registered to the first
RunCallbacksLastFirst(w, c, cbs) ==
    IF cbs = <<>> THEN w
    ELSE RunCallbacks(CallCallback(w, c, cbs[Len(cbs)]), c, SubSeq(cbs, 1, Len(cbs) - 1))

\* _basicDoCallbacks: call every callback of (a copy of) the list, in order
RunCallbacks(w, c, cbs) ==
    IF cbs = <<>> THEN w
    ELSE RunCallbacks(CallCallback(w, c, Head(cbs)), c, Tail(cbs))

\* BaseCmd.setState: the callbacks are called with the command
DoCallbacks(w1, c) == RunCallbacks(w1, c, w1.cmds[c].callbacks)

\* BaseCmd.setState: a done command loses its timer, its callbacks and its tracked command
AfterCallbacks(w2, c, depth) ==
    IF IsDone(w2, c)
    THEN [w2 EXCEPT !.cmds[c].timer = FALSE,
                    !.cmds[c].callbacks = <<>>,
                    !.cmds[c].cmdToTrack = 0,
                    !.depth = depth]
    ELSE [w2 EXCEPT !.depth = depth]

\* BaseCmd.setState; the result is the new world and whether the call raised
SetState(w, c, newState, textMsg, hubMsg) ==
    IF SetStateRaises(w, c, newState) THEN [w |-> w, raised |-> TRUE]
    ELSE LET startTimer == w.cmds[c].state = Ready /\ newState \in ActiveStates
                               /\ w.cmds[c].timeLim
             w1 == [w EXCEPT !.cmds[c].state = newState,
                             !.cmds[c].textMsg = Str(textMsg),
                             !.cmds[c].hubMsg = Str(hubMsg),
                             !.cmds[c].timer = IF startTimer THEN TRUE ELSE @,
                             !.depth = @ + 1,
                             !.cbLog = IF w.trace THEN Append(@, <<w.depth + 1, c, 0>>) ELSE @]
         IN [w |-> AfterCallbacks(DoCallbacks(w1, c), c, w.depth), raised |-> FALSE]

\* RO.AddCallback.BaseMixin.addCallback, as BaseCmd inherits it: the callback is
\* appended to the list unless it is already there
AddCallback(w, c, cb) ==
    IF \E i \in DOMAIN w.cmds[c].callbacks : w.cmds[c].callbacks[i] = cb THEN w
    ELSE [w EXCEPT !.cmds[c].callbacks = Append(@, cb)]

----------------------------------------------------------------------------
(* The bare command state machine: NumCmds commands, any setState call     *)

\* the (textMsg, hubMsg) arguments of the setState calls of the owner
CallMsgs == {<<"", "">>, <<"why", PyNone>>}
CallStates == AllStates \cup {"bogus"}

NoCall == [op |-> "none", cmd |-> 0, raised |-> FALSE]
\* no RunCmdDict has been made
NoRcd == [userCmd |-> 0, cmdDict |-> {}, devCmdDict |-> << >>, failSlotDict |-> << >>,
          callFunc |-> "none", newState |-> Ready, raisedFor |-> {},
          called |-> {}, early |-> {}]

\* no command queue is in use
QueueIdleNoRcd ==
    /\ cmdQueue = <<>>
    /\ currExeCmd = 0
    /\ queueTimer = FALSE
    /\ enabled = TRUE
    /\ ruleDict = << >>
    /\ priorityDict = << >>
    /\ killed = {}
    /\ runCount = << >>
    /\ dev = NoDev

QueueIdle ==
    /\ QueueIdleNoRcd
    /\ rcd = NoRcd

InitCmd ==
    /\ \E cbs \in {<<>>} \cup {<<UserCb(2, s)>> : s \in {Done, Failed}} :
           cmds = [c \in 1..NumCmds |->
                      IF c = 1 THEN [NewCmd("cmd", "") EXCEPT !.callbacks = cbs]
                      ELSE NewCmd("cmd", "")]
    /\ QueueIdle
    /\ linkCalls = 0
    /\ swallowed = 0
    /\ lastCall = NoCall
    /\ cbLog = <<>>

\* the owner calls c.setState(newState, textMsg, hubMsg)
CmdSetState(c, newState, textMsg, hubMsg) ==
    LET res == SetState([World EXCEPT !.cbLog = <<>>], c, newState, textMsg, hubMsg) IN
    /\ Commit(res.w)
    /\ lastCall' = [op |-> "setState", cmd |-> c, raised |-> res.raised]
    /\ UNCHANGED <<cmdQueue, currExeCmd, ruleDict, priorityDict, killed, runCount>>

NextCmd ==
    \E c \in DOMAIN cmds, newState \in CallStates, msgs \in CallMsgs :
        CmdSetState(c, newState, msgs[1], msgs[2])

SpecCmd == InitCmd /\ [][NextCmd]_vars

\* C1: once a command is in a terminal state (Done, Cancelled or Failed), every
\* later setState call on it, whatever the target state, raises an error and
\* leaves the state and both messages of the command unchanged.
C1_TerminalIsFinal ==
    [][\A c \in DOMAIN cmds :
          IsDoneState(cmds[c].state) =>
              /\ cmds'[c].state = cmds[c].state
              /\ cmds'[c].textMsg = cmds[c].textMsg
              /\ cmds'[c].hubMsg = cmds[c].hubMsg
              /\ (lastCall'.op = "setState" /\ lastCall'.cmd = c) => lastCall'.raised]_vars

\* a setState call on a command that is in a terminal state has raised
C1_Witness ==
    /\ lastCall.op = "setState"
    /\ lastCall.raised
    /\ IsDoneState(cmds[lastCall.cmd].state)

----------------------------------------------------------------------------
(* Callbacks and the timeout timer of a command: NumCmds commands, to which *)
(* the owner adds callbacks at any time, also when they are done.           *)

\* the callbacks the owner adds to the first command and to the other commands
FirstCallbacks == {ProbeCb(1), ProbeCb(2), FinishCb, UserCb(2, Done)}
OtherCallbacks == {ProbeCb(1)}
CbCallStates == {Running, Done, Failed}

InitCb ==
    /\ \E timeLim \in BOOLEAN :
          cmds = [c \in 1..NumCmds |->
                     IF c = 1 THEN [NewCmd("cmd", "") EXCEPT !.timeLim = timeLim]
                     ELSE NewCmd("cmd", "")]
    /\ QueueIdle
    /\ linkCalls = 0
    /\ swallowed = 0
    /\ lastCall = NoCall
    /\ cbLog = <<>>

\* the owner calls c.addCallback(cb)
CbAddCallback(c, cb) ==
    /\ Commit(AddCallback([World EXCEPT !.cbLog = <<>>, !.trace = TRUE], c, cb))
    /\ lastCall' = [op |-> "addCallback", cmd |-> c, raised |-> FALSE]
    /\ UNCHANGED <<cmdQueue, currExeCmd, ruleDict, priorityDict, killed, runCount>>

\* the owner calls c.setState(newState)
CbSetState(c, newState) ==
    LET res == SetState([World EXCEPT !.cbLog = <<>>, !.trace = TRUE], c, newState, "", "") IN
    /\ Commit(res.w)
    /\ lastCall' = [op |-> "setState", cmd |-> c, raised |-> res.raised]
    /\ UNCHANGED <<cmdQueue, currExeCmd, ruleDict, priorityDict, killed, runCount>>

\* a timeout that fails the command whatever its state
TimeoutAlways(w, c) == TRUE

\* BaseCmd._timeout: the test "not self.isDone"
TimeoutActs(w, c) == ~IsDone(w, c)

\* BaseCmd._timeout; the result is the new world and whether the call raised
Timeout(w, c) ==
    IF TimeoutActs(w, c) THEN SetState(w, c, Failed, "Timed out", "")
    ELSE [w |-> w, raised |-> FALSE]

\* the timeout timer of command c fires: when it is pending, or late, after the
\* command is done (the event was already on its way when the timer was cancelled)
TimeoutFires(c) ==
    /\ cmds[c].timeLim
    /\ cmds[c].timer \/ IsDone(World, c)
    /\ LET res == Timeout([World EXCEPT !.cbLog = <<>>, !.trace = TRUE,
                                        !.cmds[c].timer = FALSE], c) IN
       /\ Commit(res.w)
       /\ lastCall' = [op |-> "timeout", cmd |-> c, raised |-> res.raised]
    /\ UNCHANGED <<cmdQueue, currExeCmd, ruleDict, priorityDict, killed, runCount>>

NextCb ==
    \/ \E cb \in FirstCallbacks : CbAddCallback(1, cb)
    \/ \E c \in DOMAIN cmds \ {1}, cb \in OtherCallbacks : CbAddCallback(c, cb)
    \/ \E c \in DOMAIN cmds, newState \in CbCallStates : CbSetState(c, newState)
    \/ \E c \in DOMAIN cmds : TimeoutFires(c)

SpecCb == InitCb /\ [][NextCb]_vars

\* C12: for a command that is already in a terminal state, addCallback(fn) calls fn
\* exactly once, synchronously during the addCallback call, and does not store fn in
\* the callback list of the command.
C12_AddCallbackReplays ==
    [][\A c \in DOMAIN cmds :
          (lastCall' = [op |-> "addCallback", cmd |-> c, raised |-> FALSE]
              /\ IsDoneState(cmds[c].state))
          => /\ Len(cbLog') = 1
             /\ cbLog'[1][2] = c
             /\ cmds'[c].callbacks = cmds[c].callbacks]_vars

\* the probes among the callbacks cbs, and the probe calls that cbLog holds for the
\* setState call on command c at depth d
ProbesIn(cbs) == SelectSeq(cbs, LAMBDA cb : cb.kind = "probe")
ProbeCalls(log, d, c) == SelectSeq(log, LAMBDA e : e[1] = d /\ e[2] = c /\ e[3] # 0)
SetStateCalls(log, d, c) == {i \in DOMAIN log : log[i] = <<d, c, 0>>}

\* C13: every successful setState call on a command (the owner's call and the calls
\* that callbacks make inside it) calls each callback registered on the command
\* exactly once, before the owner's call returns, in registration order and with the
\* command; when the new state is terminal the callback list is empty afterwards.
C13_CallbacksInOrder ==
    [][(lastCall'.op = "setState" /\ ~lastCall'.raised) =>
          /\ cbLog' # <<>>
          /\ cbLog'[1] = <<1, lastCall'.cmd, 0>>
          /\ \A i \in DOMAIN cbLog' : cbLog'[i][3] = 0 =>
                LET d == cbLog'[i][1]
                    c == cbLog'[i][2]
                    calls == ProbeCalls(cbLog', d, c)
                    probes == ProbesIn(cmds[c].callbacks)
                IN /\ SetStateCalls(cbLog', d, c) = {i}
                   /\ \A k \in DOMAIN calls : SelectSeq(SubSeq(cbLog', 1, i),
                            LAMBDA e : e = calls[k]) = <<>>
                   /\ Len(calls) = Len(probes)
                   /\ \A k \in DOMAIN calls : calls[k][3] = probes[k].target
                   /\ IsDoneState(cmds'[c].state) => cmds'[c].callbacks = <<>>]_vars

\* setState(Running) on a command with callbacks probe 1, finish, probe 2: the owner's
\* call and the setState(Done) call that the finish callback makes have each called
\* probe 1 and then probe 2
C13_Witness ==
    /\ lastCall = [op |-> "setState", cmd |-> 1, raised |-> FALSE]
    /\ cbLog = << <<1, 1, 0>>, <<1, 1, 1>>, <<2, 1, 0>>, <<2, 1, 1>>, <<2, 1, 2>>, <<1, 1, 2>> >>
    /\ cmds[1].state = Done
    /\ cmds[1].callbacks = <<>>

\* C14: when the timeout timer of a command fires while the command is not
\* terminal, the command becomes Failed with text message "Timed out"; when it fires
\* on a command that is already terminal, nothing changes and no error is raised.
C14_Timeout ==
    [][\A c \in DOMAIN cmds :
          (lastCall'.op = "timeout" /\ lastCall'.cmd = c) =>
              /\ ~lastCall'.raised
              /\ IF IsDoneState(cmds[c].state)
                 THEN cmds' = cmds
                 ELSE cmds'[c].state = Failed /\ cmds'[c].textMsg = "Timed out"]_vars

\* the timer of a running command has fired and the command is Failed
C14_Witness ==
    /\ lastCall = [op |-> "timeout", cmd |-> 1, raised |-> FALSE]
    /\ cmds[1].state = Failed
    /\ cmds[1].textMsg = "Timed out"
    /\ cbLog # <<>>

\* the timer of a command has fired after the command ended Done
C14_WitnessLate ==
    /\ lastCall = [op |-> "timeout", cmd |-> 1, raised |-> FALSE]
    /\ cmds[1].state = Done
    /\ cbLog = <<>>

----------------------------------------------------------------------------
(* Tracking: NumCmds commands; a command may track a command made after it  *)
(* (a user command tracks the device command made for it).                  *)

TrackCallStates == {Ready, Running, Done, Failed}

\* BaseCmd.trackCmd; the result is the new world and whether the call raised
TrackCmd(w, a, b) ==
    IF IsDone(w, a) THEN [w |-> w, raised |-> TRUE]
    ELSE IF w.cmds[a].cmdToTrack # 0 THEN [w |-> w, raised |-> TRUE]
    ELSE [w |-> [AddCallback(w, b, TrackCb(a)) EXCEPT !.cmds[a].cmdToTrack = b],
          raised |-> FALSE]

InitTrack ==
    /\ cmds = [c \in 1..NumCmds |-> NewCmd("cmd", "")]
    /\ QueueIdle
    /\ linkCalls = 0
    /\ swallowed = 0
    /\ lastCall = NoCall
    /\ cbLog = <<>>

\* a.trackCmd(b) is called (DevCmd.__init__ of b with userCmd a)
TrackTrackCmd(a, b) ==
    LET res == TrackCmd([World EXCEPT !.cbLog = <<>>, !.trace = TRUE], a, b) IN
    /\ a < b
    /\ Commit(res.w)
    /\ lastCall' = [op |-> "trackCmd", cmd |-> a, raised |-> res.raised]
    /\ UNCHANGED <<cmdQueue, currExeCmd, ruleDict, priorityDict, killed, runCount>>

\* c.setState(newState, textMsg, hubMsg) is called by the owner of c
TrackSetState(c, newState, textMsg, hubMsg) ==
    LET res == SetState([World EXCEPT !.cbLog = <<>>, !.trace = TRUE],
                        c, newState, textMsg, hubMsg) IN
    /\ swallowed < MaxSwallowed
    /\ Commit(res.w)
    /\ lastCall' = [op |-> "setState", cmd |-> c, raised |-> res.raised]
    /\ UNCHANGED <<cmdQueue, currExeCmd, ruleDict, priorityDict, killed, runCount>>

\* the owner adds a callback to the last command: one that ends it when it runs
TrackAddCallback(c, cb) ==
    /\ c = NumCmds
    /\ CbAddCallback(c, cb)

NextTrack ==
    \/ \E a, b \in DOMAIN cmds : TrackTrackCmd(a, b)
    \/ \E c \in DOMAIN cmds, newState \in TrackCallStates, msgs \in CallMsgs :
           TrackSetState(c, newState, msgs[1], msgs[2])
    \/ \E c \in DOMAIN cmds : TrackAddCallback(c, FinishCb)

SpecTrack == InitTrack /\ [][NextTrack]_vars

\* C15: if command a tracks command b and a is not terminal, then after a setState
\* call on b returns, the state, text message and hub message of a equal those of
\* b; so a ends in the same terminal state with the same messages as b.
C15_TrackerFollows ==
    [][\A a, b \in DOMAIN cmds :
          (/\ cmds[a].cmdToTrack = b
           /\ ~IsDoneState(cmds[a].state)
           /\ lastCall' = [op |-> "setState", cmd |-> b, raised |-> FALSE])
          => /\ cmds'[a].state = cmds'[b].state
             /\ cmds'[a].textMsg = cmds'[b].textMsg
             /\ cmds'[a].hubMsg = cmds'[b].hubMsg]_vars

\* command 1 tracks command 2; setState(Failed, "why", None) on command 2 has set
\* command 1 (in a nested setState call) to the same state and messages
C15_Witness ==
    /\ lastCall = [op |-> "setState", cmd |-> 2, raised |-> FALSE]
    /\ cbLog = << <<1, 2, 0>>, <<2, 1, 0>> >>
    /\ cmds[2].state = Failed /\ cmds[2].textMsg = "why" /\ cmds[2].hubMsg = "None"
    /\ cmds[1].state = Failed /\ cmds[1].textMsg = "why" /\ cmds[1].hubMsg = "None"

----------------------------------------------------------------------------
(* LinkCommands(mainCmd, subCmdList): NumSubs sub-commands, some of them    *)
(* already started or done when the link is made.  The owner may have put   *)
(* a callback of its own on the first sub-command, before the link was made *)
(* (BaseCmd(callFunc=...)) or after it (addCallback).                       *)

SubStartStates == {Ready, Running, Done}
SubCallStates == {Running, Done, Cancelled, Failed}
MainCallStates == {Running, Cancelled, Failed}

\* the owner's callbacks on the first sub-command: none, or one that ends another
\* sub-command Done
OwnerCallbacks == {<<>>} \cup {<<UserCb(j, Done)>> : j \in 2..NumSubs}

\* LinkCommands.__init__, first part: subCmdCallback is added to each sub-command
\* that is not done
AddLinkCallbacks(w) ==
    [w EXCEPT !.cmds = [c \in DOMAIN w.cmds |->
        IF c # LinkMain /\ ~IsDone(w, c)
        THEN [w.cmds[c] EXCEPT !.callbacks = Append(@, LinkCb)]
        ELSE w.cmds[c]]]

\* addCallback of the owner's callbacks cbs on command c (kept only while c is not done)
AddOwnerCallbacks(w, c, cbs) ==
    IF IsDone(w, c) THEN w
    ELSE [w EXCEPT !.cmds[c].callbacks = @ \o cbs]

InitLink ==
    /\ \E st \in [1..NumSubs -> SubStartStates], cbs \in OwnerCallbacks, first \in BOOLEAN :
          LET w0 == [cmds |-> [c \in 0..NumSubs |->
                                  IF c = LinkMain THEN NewCmd("main", "")
                                  ELSE [NewCmd("subCmd" \o ToString(c), "") EXCEPT !.state = st[c]]],
                     queueTimer |-> FALSE, enabled |-> TRUE, linkCalls |-> 0, swallowed |-> 0,
                     rcd |-> NoRcd, cbLog |-> <<>>, dev |-> NoDev, depth |-> 0, trace |-> FALSE, adds |-> <<>>]
              w1 == IF first THEN AddOwnerCallbacks(w0, 1, cbs) ELSE w0
              w2 == AddLinkCallbacks(w1)
              w3 == SubCmdCallback(w2).w
              w4 == IF first THEN w3 ELSE AddOwnerCallbacks(w3, 1, cbs)
          IN /\ cmds = w4.cmds
             /\ linkCalls = w4.linkCalls
             /\ swallowed = w4.swallowed
    /\ QueueIdle
    /\ lastCall = NoCall
    /\ cbLog = <<>>

\* a sub-command changes state
LinkSubSetState(c, newState) ==
    /\ c # LinkMain
    /\ CmdSetState(c, newState, "", "")

\* the main command changes state by other means than the link
LinkMainSetState(newState) ==
    CmdSetState(LinkMain, newState, "", "")

NextLink ==
    \/ \E c \in DOMAIN cmds, newState \in SubCallStates : LinkSubSetState(c, newState)
    \/ \E newState \in MainCallStates : LinkMainSetState(newState)

SpecLink == InitLink /\ [][NextLink]_vars

SubsAllDone == \A i \in 1..NumSubs : cmds[i].state \in {Done, Cancelled, Failed}
SubsSomeFailed == \E i \in 1..NumSubs : cmds[i].state \in {Cancelled, Failed}

\* C9: the link does not set mainCmd to a terminal state while some sub-command
\* is not done (whatever the order in which the sub-commands finish), and when the last
\* sub-command becomes done mainCmd becomes Failed if a sub-command ended Failed or
\* Cancelled and Done otherwise.
C9_LinkResult ==
    /\ SubsAllDone => cmds[LinkMain].state = IF SubsSomeFailed THEN Failed ELSE Done
    /\ ~SubsAllDone => cmds[LinkMain].state = Ready
    /\ [][lastCall'.cmd # LinkMain =>
            /\ (~IsDoneState(cmds[LinkMain].state) /\ IsDoneState(cmds'[LinkMain].state))
                   => SubsAllDone'
            /\ (~SubsAllDone /\ SubsAllDone' /\ ~IsDoneState(cmds[LinkMain].state))
                   => cmds'[LinkMain].state = IF SubsSomeFailed' THEN Failed ELSE Done]_vars

\* the last sub-command has just finished, one of them failed, and the link has
\* set the main command Failed
C9_Witness ==
    /\ SubsAllDone
    /\ cmds[3].state = Done
    /\ cmds[1].state = Cancelled
    /\ lastCall = [op |-> "setState", cmd |-> 2, raised |-> FALSE]
    /\ linkCalls = 1
    /\ cmds[LinkMain].state = Failed

\* C10: the link calls setState on mainCmd exactly once: not before all sub-commands
\* are done, once when they are, and never a second time.
C10_OneSetState ==
    /\ linkCalls <= 1
    /\ SubsAllDone <=> linkCalls = 1

----------------------------------------------------------------------------
(* DeviceSet.startCmdDict (deviceSet.py, RunCmdDict): one device command    *)
(* per slot of cmdDict, folded into the user command.                       *)

UserCmdId == 0
CallFuncs == {"none", "ignore", "retry", "raise"}
\* the state of the command that Device.startCmd returns: Ready, or Failed when the
\* device is not connected or the write failed
StartCmdStates == {Ready, Failed}
\* the state changes a device makes to its command
DevCallStates == {Running, Done, Failed, Cancelled}
\* the text message a device gives with a state
DevTextMsg(c, newState) ==
    IF newState \in FailedStates THEN "dev" \o ToString(c) \o " " \o newState ELSE ""

RECURSIVE StartSlots(_, _, _)
\* RunCmdDict.__init__: the loop over cmdDict, for the slots from `slot' on; st gives
\* the state of the command that startCmd returns for each slot
StartSlots(w, slot, st) ==
    IF slot > NumSlots THEN w
    ELSE IF slot \notin w.rcd.cmdDict THEN StartSlots(w, slot + 1, st)
    ELSE LET devCmd == [NewCmd("cmd" \o ToString(slot), "") EXCEPT
                            !.state = st[slot],
                            !.textMsg = DevTextMsg(slot, st[slot])]
             w1 == [w EXCEPT !.cmds = @ @@ (slot :> devCmd),
                             !.rcd.devCmdDict = DictSet(@, slot, slot)]
             w2 == [w1 EXCEPT !.cmds[slot].callbacks = Append(@, DevCmdCb(slot))]
         IN StartSlots(w2, slot + 1, st)

\* RunCmdDict.__init__ after the checks: the loop over cmdDict and checkDone, for
\* the user command userCmd
RunCmdDictOn(userCmd, cmdDict, callFunc, newState, st) ==
    LET w0 == [cmds |-> (UserCmdId :> userCmd),
               queueTimer |-> FALSE, enabled |-> TRUE, linkCalls |-> 0, swallowed |-> 0,
               rcd |-> [NoRcd EXCEPT !.userCmd = UserCmdId, !.cmdDict = cmdDict,
                                     !.callFunc = callFunc, !.newState = newState],
               cbLog |-> <<>>, dev |-> NoDev, depth |-> 0, trace |-> FALSE, adds |-> <<>>]
    IN CheckDone(StartSlots(w0, 1, st)).w

\* RunCmdDict.__init__(devSet, callFunc, cmdDict, userCmd, timeLim) with a new user command
RunCmdDictInit(cmdDict, callFunc, newState, st) ==
    RunCmdDictOn(NewCmd("move", ""), cmdDict, callFunc, newState, st)

InitDevSet ==
    /\ \E cmdDict \in SUBSET (1..NumSlots), callFunc \in CallFuncs, newState \in StartCmdStates :
       \E st \in [cmdDict -> StartCmdStates] :
          LET w == RunCmdDictInit(cmdDict, callFunc, newState, st)
          IN /\ cmds = w.cmds
             /\ rcd = w.rcd
             /\ swallowed = w.swallowed
    /\ QueueIdleNoRcd
    /\ linkCalls = 0
    /\ lastCall = NoCall
    /\ cbLog = <<>>

\* a device changes the state of one of its commands
DevSetState(c, newState) ==
    /\ c # UserCmdId
    /\ ~IsDone(World, c)
    /\ CmdSetState(c, newState, DevTextMsg(c, newState), "")

\* the user command is ended by other means than the fan-out
UserCmdSetState(newState) ==
    CmdSetState(UserCmdId, newState, "", "")

NextDevSet ==
    \/ \E c \in DOMAIN cmds, newState \in DevCallStates : DevSetState(c, newState)
    \/ \E newState \in {Cancelled} : UserCmdSetState(newState)

SpecDevSet == InitDevSet /\ [][NextDevSet]_vars

\* the latest device command of a slot: the one callFunc started, if any
LatestCmd(slot) == IF NewDevCmdId(slot) \in DOMAIN cmds THEN NewDevCmdId(slot) ELSE slot
AllLatestDone == \A s \in rcd.cmdDict : cmds[LatestCmd(s)].state \in {Done, Cancelled, Failed}
SomeDevCmdFailed == \E c \in DOMAIN cmds \ {UserCmdId} : cmds[c].state \in {Cancelled, Failed}
UserCmdDone == cmds[UserCmdId].state \in {Done, Cancelled, Failed}

\* the frame and waiting parts of C11: every slot of cmdDict has its command, a step
\* of one device command changes no other device command, and the fan-out ends the
\* user command only when the latest command of every slot is done
FanOutLeavesSlotsAlone ==
    /\ [](DOMAIN rcd.devCmdDict = rcd.cmdDict /\ \A s \in rcd.cmdDict : s \in DOMAIN cmds)
    /\ UserCmdDone => AllLatestDone
    /\ [][lastCall'.cmd # UserCmdId =>
            /\ \A d \in DOMAIN cmds \ {UserCmdId, lastCall'.cmd} : cmds'[d].state = cmds[d].state
            /\ (~UserCmdDone /\ UserCmdDone') => AllLatestDone']_vars

----------------------------------------------------------------------------
(* CommandQueue (commandQueue.py)                                           *)

\* a priority is CommandQueue.Immediate or an integer
Immediate == [imm |-> TRUE, val |-> 0]
IntPriority(n) == [imm |-> FALSE, val |-> n]

CancelNew == "cancelnew"
CancelQueued == "cancelqueued"
KillRunning == "killrunning"
AddActions == {CancelNew, CancelQueued, KillRunning}
NoRule == "None"

\* the priority tables the queue is constructed with
PlainPriorityDict ==
    [v \in {"kill", "hi", "lo"} |->
        CASE v = "kill" -> Immediate [] v = "hi" -> IntPriority(3) [] v = "lo" -> IntPriority(1)]
RulesPriorityDict ==
    [v \in {"hia", "meda", "medb"} |->
        CASE v = "hia" -> IntPriority(3) [] v = "meda" -> IntPriority(2)
          [] v = "medb" -> IntPriority(2)]

\* CommandQueue.__init__: currExeCmd is a dummy command that is Done
DummyCmd == [NewCmd("", "dummy") EXCEPT !.state = Done]

Range(q) == {q[i] : i \in DOMAIN q}
NextId == Cardinality(DOMAIN cmds)

\* CommandQueue.getRule
GetRule(newCmd, queuedCmd) ==
    IF <<newCmd, queuedCmd>> \in DOMAIN ruleDict THEN ruleDict[<<newCmd, queuedCmd>>]
    ELSE NoRule

\* the priority of the QueuedCommand of command c
PriorityOf(w, c) == priorityDict[w.cmds[c].cmdVerb]

\* QueuedCommand.__lt__
PriorityLt(p, q) ==
    IF p.imm /\ ~q.imm THEN FALSE
    ELSE IF ~p.imm /\ q.imm THEN TRUE
    ELSE IF p.imm /\ q.imm THEN FALSE
    ELSE p.val < q.val

RECURSIVE BisectLeft(_, _, _, _)
\* bisect.insort_left: the binary search; a holds the priorities, lo and hi count from 0
BisectLeft(a, x, lo, hi) ==
    IF lo < hi
    THEN LET mid == (lo + hi) \div 2 IN
         IF PriorityLt(a[mid + 1], x) THEN BisectLeft(a, x, mid + 1, hi)
         ELSE BisectLeft(a, x, lo, mid)
    ELSE lo

\* the index (from 0) at which addCmd inserts a command of priority x into queue q
InsertIndex(w, q, x) ==
    BisectLeft([i \in DOMAIN q |-> PriorityOf(w, q[i])], x, 0, Len(q))

\* bisect.insort_left(cmdQueue, toQueue)
InsortLeft(w, q, c) ==
    LET i == InsertIndex(w, q, PriorityOf(w, c)) IN
    SubSeq(q, 1, i) \o <<c>> \o SubSeq(q, i + 1, Len(q))

\* what the killFunc of the owner does right away with the command it is to kill
KillModes == {"cancel", "later"}
KillFunc(w, c, mode) ==
    CASE mode = "cancel" -> SetState(w, c, Cancelled, "", "").w
      [] mode = "later" -> w

\* what the runFunc of a command does right away with the command
RunModes == {"later", "done"}
RunFunc(w, c, mode) ==
    CASE mode = "later" -> w
      [] mode = "done" -> SetState(w, c, Done, "", "").w

\* a queue that, for an Immediate command, cancels the running command itself
CancelRunningToo(w, cmdList, newStr) ==
    IF IsDone(w, currExeCmd) THEN w
    ELSE SetState(w, currExeCmd, Cancelled,
             "Cancelled on queue by immediate priority command '" \o newStr \o "'", "").w

RECURSIVE CancelAllQueued(_, _, _)
\* addCmd, Immediate priority: every queued command that is not done is cancelled
CancelAllQueued(w, cmdList, newStr) ==
    IF cmdList = <<>> THEN w
    ELSE LET sadCmd == Head(cmdList)
             w1 == IF ~IsDone(w, sadCmd)
                   THEN SetState(w, sadCmd, Cancelled,
                            "Cancelled on queue by immediate priority command '" \o newStr \o "'",
                            "").w
                   ELSE w
         IN CancelAllQueued(w1, Tail(cmdList), newStr)

RECURSIVE CheckQueued(_, _, _)
\* addCmd, other priorities: the new command n is checked against the queued commands
CheckQueued(w, n, cmdList) ==
    IF cmdList = <<>> THEN [w |-> w, rejected |-> FALSE]
    ELSE LET queuedCmd == Head(cmdList)
             action == GetRule(w.cmds[n].cmdVerb, w.cmds[queuedCmd].cmdVerb)
         IN IF IsDone(w, queuedCmd) THEN [w |-> w, rejected |-> FALSE]
            ELSE IF action = CancelNew
            THEN [w |-> SetState(w, n, Cancelled,
                            "Cancelled before queueing by queued command '"
                                \o w.cmds[queuedCmd].cmdStr \o "'", "").w,
                  rejected |-> TRUE]
            ELSE IF action \in {CancelQueued, KillRunning}
            THEN CheckQueued(SetState(w, queuedCmd, Cancelled,
                                 "Cancelled while queued by new command '"
                                     \o w.cmds[n].cmdStr \o "'", "").w,
                             n, Tail(cmdList))
            ELSE CheckQueued(w, n, Tail(cmdList))

\* a queue that never kills the running command for a rule
NeverKills(action) == FALSE

\* a queue that kills the running command for every new command that is not rejected
AlwaysKills(action) == TRUE

\* addCmd: the test of the rule against the running command that makes addCmd call killFunc
KillsRunning(action) == action = KillRunning

\* addCmd, other priorities: the new command n is checked against the running command
CheckRunning(w, n, mode) ==
    IF IsDone(w, currExeCmd) THEN [w |-> w, kill |-> FALSE, queued |-> TRUE]
    ELSE LET action == GetRule(w.cmds[n].cmdVerb, w.cmds[currExeCmd].cmdVerb) IN
         IF action = CancelNew
         THEN [w |-> SetState(w, n, Cancelled,
                         "Cancelled before queueing by running command '"
                             \o w.cmds[currExeCmd].cmdStr \o "'", "").w,
               kill |-> FALSE, queued |-> FALSE]
         ELSE IF KillsRunning(action)
         THEN [w |-> KillFunc(w, currExeCmd, mode), kill |-> TRUE, queued |-> TRUE]
         ELSE [w |-> w, kill |-> FALSE, queued |-> TRUE]

\* a queue that treats an Immediate priority like any other
NeverImmediate(priority) == FALSE

\* addCmd takes the branch of an Immediate priority
IsImmediate(priority) == priority = Immediate

\* addCmd up to the insertion: the new world, whether killFunc was called and
\* whether the command is to be inserted
AddCmdChecks(w, n, mode) ==
    IF IsImmediate(PriorityOf(w, n))
    THEN LET w1 == CancelAllQueued(w, cmdQueue, w.cmds[n].cmdStr)
             kill == ~IsDone(w1, currExeCmd)
         IN [w |-> IF kill THEN KillFunc(w1, currExeCmd, mode) ELSE w1,
             kill |-> kill, queued |-> TRUE]
    ELSE LET r == CheckQueued(w, n, cmdQueue) IN
         IF r.rejected THEN [w |-> r.w, kill |-> FALSE, queued |-> FALSE]
         ELSE CheckRunning(r.w, n, mode)

\* CommandQueue.scheduleRunQueue() called without a command
ScheduleRunQueueNow(w) ==
    IF ~w.enabled THEN w ELSE [w EXCEPT !.queueTimer = TRUE]

\* CommandQueue.addCmd(cmd, runFunc) of a new command with verb (and command string) verb
AddCmd(verb, mode) ==
    /\ NextId <= MaxCmds
    /\ verb \in DOMAIN priorityDict
    /\ LET n == NextId
           r == AddCmdChecks([World EXCEPT !.cmds = @ @@ (n :> NewCmd(verb, verb))], n, mode)
       IN /\ Commit(IF r.queued THEN ScheduleRunQueueNow(r.w) ELSE r.w)
          /\ cmdQueue' = IF r.queued THEN InsortLeft(r.w, cmdQueue, n) ELSE cmdQueue
          /\ killed' = IF r.kill THEN killed \cup {<<currExeCmd, n>>} ELSE killed
          /\ runCount' = runCount @@ (n :> 0)
    /\ UNCHANGED <<currExeCmd, ruleDict, priorityDict, lastCall>>

\* a queue that starts the command at the front of the list
PopFirst(q) == 1

\* runQueue: the index of the queued command that is started (cmdQueue.pop(-1))
PopIndex(q) == Len(q)

\* a queue that starts the next command whatever the state of the last one
StartAnyway(w) == TRUE

\* runQueue: the next command may be started
CanStartNext(w) == IsDone(w, currExeCmd)

\* a queue that keeps done commands
NoPrune(w, q) == q

\* runQueue: the queue without the commands that are done
Prune(w, q) == SelectSeq(q, LAMBDA c : ~IsDone(w, c))

\* the queue timer fires: CommandQueue.runQueue
RunQueue(mode) ==
    /\ queueTimer
    /\ LET w0 == [World EXCEPT !.queueTimer = FALSE]
           pruned == Prune(w0, cmdQueue)
       IN IF ~w0.enabled
          THEN Commit(w0) /\ UNCHANGED <<cmdQueue, currExeCmd, runCount>>
          ELSE IF pruned = <<>> \/ ~CanStartNext(w0)
          THEN Commit(w0) /\ cmdQueue' = pruned /\ UNCHANGED <<currExeCmd, runCount>>
          ELSE LET c == pruned[PopIndex(pruned)]
                   w1 == SetState(w0, c, Running, "", "").w
                   w2 == RunFunc(w1, c, mode)
                   w3 == AddCallback(w2, c, SchedCb)
               IN /\ Commit(w3)
                  /\ cmdQueue' = SubSeq(pruned, 1, PopIndex(pruned) - 1)
                                     \o SubSeq(pruned, PopIndex(pruned) + 1, Len(pruned))
                  /\ currExeCmd' = c
                  /\ runCount' = [runCount EXCEPT ![c] = @ + 1]
    /\ UNCHANGED <<ruleDict, priorityDict, killed, lastCall>>

\* the owner of the running command changes its state; a command that killFunc
\* was called on is not ended Done
OwnerStates == {Cancelling, Done, Failed}
OwnerSetState(newState) ==
    /\ currExeCmd # 0
    /\ ~IsDone(World, currExeCmd)
    /\ (\E k \in killed : k[1] = currExeCmd) => newState # Done
    /\ Commit(SetState(World, currExeCmd, newState, "", "").w)
    /\ UNCHANGED <<cmdQueue, currExeCmd, ruleDict, priorityDict, killed, runCount, lastCall>>

\* a command waiting in the queue is cancelled from elsewhere
OwnerCancelQueued(c) ==
    /\ c \in Range(cmdQueue)
    /\ ~IsDone(World, c)
    /\ Commit(SetState(World, c, Cancelled, "", "").w)
    /\ UNCHANGED <<cmdQueue, currExeCmd, ruleDict, priorityDict, killed, runCount, lastCall>>

\* a registration that overwrites the rules that are already set
OverwriteRules(rd, action, newCmds, queuedCmds, k) ==
    LET pairs == {<<newCmds[i], queuedCmds[j]>> : i \in DOMAIN newCmds, j \in DOMAIN queuedCmds}
    IN [rd |-> [p \in DOMAIN rd \cup pairs |-> IF p \in pairs THEN action ELSE rd[p]],
        raised |-> FALSE]

RECURSIVE RegisterRules(_, _, _, _, _)
\* addRule, the registration loops, over the pairs (newCmds[i], queuedCmds[j]) in order
RegisterRules(rd, action, newCmds, queuedCmds, k) ==
    IF k >= Len(newCmds) * Len(queuedCmds) THEN [rd |-> rd, raised |-> FALSE]
    ELSE LET nc == newCmds[(k \div Len(queuedCmds)) + 1]
             qc == queuedCmds[(k % Len(queuedCmds)) + 1]
         IN IF <<nc, qc>> \in DOMAIN rd THEN [rd |-> rd, raised |-> TRUE]
            ELSE RegisterRules(rd @@ (<<nc, qc>> :> action), action, newCmds, queuedCmds, k + 1)

\* addRule: the rule table the call leaves and whether the call raised
AddRuleResult(rd, action, newCmds, queuedCmds) ==
    IF \/ \E i \in DOMAIN newCmds : newCmds[i] \notin DOMAIN priorityDict
       \/ \E i \in DOMAIN queuedCmds : queuedCmds[i] \notin DOMAIN priorityDict
       \/ action \notin AddActions
    THEN [rd |-> rd, raised |-> TRUE]
    ELSE RegisterRules(rd, action, newCmds, queuedCmds, 0)

\* CommandQueue.addRule(action, newCmds, queuedCmds), before the first command is added
AddRule(action, newCmds, queuedCmds) ==
    /\ NextId = 1
    /\ Cardinality(DOMAIN ruleDict) < MaxRules
    /\ ruleDict' = AddRuleResult(ruleDict, action, newCmds, queuedCmds).rd
    /\ UNCHANGED <<cmds, cmdQueue, currExeCmd, queueTimer, enabled, priorityDict, killed,
                   runCount, linkCalls, swallowed, lastCall, rcd, cbLog, dev>>

InitQueue(pd) ==
    /\ cmds = (0 :> DummyCmd)
    /\ cmdQueue = <<>>
    /\ currExeCmd = 0
    /\ queueTimer = FALSE
    /\ enabled = TRUE
    /\ ruleDict = << >>
    /\ priorityDict = pd
    /\ killed = {}
    /\ runCount = (0 :> 0)
    /\ linkCalls = 0
    /\ swallowed = 0
    /\ lastCall = NoCall
    /\ rcd = NoRcd
    /\ cbLog = <<>>
    /\ dev = NoDev

NextQueue ==
    \/ \E verb \in DOMAIN priorityDict, mode \in KillModes : AddCmd(verb, mode)
    \/ \E mode \in RunModes : RunQueue(mode)
    \/ \E newState \in OwnerStates : OwnerSetState(newState)
    \/ \E c \in DOMAIN cmds : OwnerCancelQueued(c)

\* a killAll that leaves the queued commands as they are
FailNone(w, cmdList) == w

RECURSIVE FailAllQueued(_, _)
\* killAll: every queued command that is not done is failed with text "disconnected"
FailAllQueued(w, cmdList) ==
    IF cmdList = <<>> THEN w
    ELSE LET cmd == Head(cmdList)
             w1 == IF ~IsDone(w, cmd)
                   THEN SetState(w, cmd, Failed, "disconnected", "").w
                   ELSE w
         IN FailAllQueued(w1, Tail(cmdList))

\* CommandQueue.killAll(); the running command is failed through
\* QueuedCommand.setState, whose hubMsg defaults to None
KillAll ==
    /\ LET w0 == [World EXCEPT !.enabled = FALSE]
           w1 == FailAllQueued(w0, cmdQueue)
           w2 == IF ~IsDone(w1, currExeCmd)
                 THEN SetState(w1, currExeCmd, Failed, "disconnected", PyNone).w
                 ELSE w1
       IN Commit([w2 EXCEPT !.enabled = TRUE])
    /\ cmdQueue' = <<>>
    /\ UNCHANGED <<currExeCmd, ruleDict, priorityDict, killed, runCount, lastCall>>

NextKillAll ==
    \/ KillAll
    \/ NextQueue

\* the newCmds and queuedCmds lists of the addRule calls
RuleNewCmds == {<<"medb">>}
RuleQueuedCmds == {<<"meda">>, <<"medb">>}

NextRules ==
    \/ \E action \in AddActions, newCmds \in RuleNewCmds, queuedCmds \in RuleQueuedCmds :
           AddRule(action, newCmds, queuedCmds)
    \/ NextQueue

\* a queue without collision rules over verbs of Immediate and integer priorities
InitPlain == InitQueue(PlainPriorityDict)
\* a queue with collision rules over verbs of integer priorities
InitRules == InitQueue(RulesPriorityDict)

SpecQueue == InitPlain /\ [][NextQueue]_vars
SpecRules == InitRules /\ [][NextRules]_vars
\* a queue without collision rules whose owner may call killAll
SpecKillAll == InitPlain /\ [][NextKillAll]_vars

----------------------------------------------------------------------------
(* Properties of the queue                                                  *)

\* command c waits in the queue and is not done
Waiting(c) == c \in Range(cmdQueue) /\ cmds[c].state \notin {Done, Cancelled, Failed}
\* command c is the running command and is not done
RunningNow(c) == c = currExeCmd /\ cmds[c].state \notin {Done, Cancelled, Failed}
\* this step is the addCmd call of command n
Adds(n) == n \notin DOMAIN cmds /\ n \in DOMAIN cmds'
\* this step is the queue starting command c
Starts(c) == currExeCmd' = c /\ currExeCmd # c
\* command d has a higher priority than command c; the same priority
Higher(d, c) ==
    LET p == priorityDict[cmds[d].cmdVerb]
        q == priorityDict[cmds[c].cmdVerb]
    IN (p.imm /\ ~q.imm) \/ (~p.imm /\ ~q.imm /\ p.val > q.val)
SamePriority(d, c) == priorityDict[cmds[d].cmdVerb] = priorityDict[cmds[c].cmdVerb]
\* the rule the table holds for a new command n against command q
RuleFor(n, q) == GetRule(cmds'[n].cmdVerb, cmds[q].cmdVerb)

\* C2: a command the queue starts has the highest priority of the not-done commands
\* waiting at that moment (Immediate above every integer, larger integers above
\* smaller ones) and is the first added among those of its priority.
C2_StartsHighestFirst ==
    [][\A c \in DOMAIN cmds : Starts(c) =>
          /\ Waiting(c)
          /\ \A d \in DOMAIN cmds : Waiting(d) =>
                /\ ~Higher(d, c)
                /\ SamePriority(d, c) => c <= d]_vars

\* the queue has started the first added of two "hi" commands, ahead of a "lo"
\* command that was added before them
C2_Witness ==
    /\ NextId = 4
    /\ cmds[1].cmdVerb = "lo" /\ cmds[2].cmdVerb = "hi" /\ cmds[3].cmdVerb = "hi"
    /\ currExeCmd = 2
    /\ cmds[2].state = Running
    /\ cmdQueue = <<1, 3>>
    /\ runCount[1] = 0 /\ runCount[3] = 0

\* C3: at most one command started by the queue is not done, and the queue starts
\* a command only when the command it started last is in a terminal state.
C3_OneRunning ==
    /\ [](Cardinality({c \in DOMAIN cmds : runCount[c] > 0 /\ ~IsDoneState(cmds[c].state)}) <= 1)
    /\ [][\A c \in DOMAIN cmds : Starts(c) => IsDoneState(cmds[currExeCmd].state)]_vars

\* the second command was started after the first one finished, the third waits
C3_Witness ==
    /\ NextId = 4
    /\ runCount[1] = 1 /\ cmds[1].state = Done
    /\ currExeCmd = 2 /\ cmds[2].state = Running
    /\ Waiting(3)

\* C4: when addCmd of an Immediate command returns, every command that was waiting
\* and not done is Cancelled (and stays so: of the commands it preempts only the
\* running one, which is left to its owner, can still end Done), and killFunc has
\* been invoked on the running command if that was not done; so of two Immediate
\* commands added back to back the first is Cancelled.
C4_ImmediatePreempts ==
    [][/\ \A n \in DOMAIN cmds' :
            (Adds(n) /\ priorityDict[cmds'[n].cmdVerb].imm) =>
                /\ \A q \in DOMAIN cmds : Waiting(q) => cmds'[q].state = Cancelled
                /\ \A r \in DOMAIN cmds : RunningNow(r) => <<r, n>> \in killed'
                /\ n \in Range(cmdQueue')
       /\ \A c \in DOMAIN cmds : cmds[c].state = Cancelled => cmds'[c].state = Cancelled]_vars

\* two Immediate commands were added back to back while a command was running:
\* the running one was killed, the first Immediate one cancelled, the second ended Done
C4_Witness ==
    /\ NextId = 4
    /\ cmds[1].cmdVerb = "lo" /\ cmds[2].cmdVerb = "kill" /\ cmds[3].cmdVerb = "kill"
    /\ <<1, 2>> \in killed
    /\ cmds[1].state = Failed
    /\ cmds[2].state = Cancelled /\ runCount[2] = 0
    /\ cmds[2].textMsg = "Cancelled on queue by immediate priority command 'kill'"
    /\ cmds[3].state = Done /\ runCount[3] = 1

\* C5: if the rule of the new command against some not-done command that waits in
\* the queue (anywhere) or is running is CancelNew, addCmd sets the new command
\* Cancelled and does not insert it, and its runFunc is never invoked.
C5_CancelNewRejects ==
    [][/\ \A n \in DOMAIN cmds' :
            (/\ Adds(n)
             /\ \E q \in DOMAIN cmds : (Waiting(q) \/ RunningNow(q)) /\ RuleFor(n, q) = CancelNew)
            => (cmds'[n].state = Cancelled /\ n \notin Range(cmdQueue'))
       /\ \A c \in DOMAIN cmds :
            (c \notin Range(cmdQueue) /\ runCount[c] = 0) => runCount'[c] = 0]_vars

\* C6: when addCmd rejects the new command for a CancelNew rule, the call leaves the
\* queue and every queued or running command unchanged, and does not invoke killFunc.
C6_RejectChangesNothing ==
    [][\A n \in DOMAIN cmds' :
          (Adds(n) /\ cmds'[n].state = Cancelled) =>
              /\ \A c \in DOMAIN cmds : cmds'[c] = cmds[c]
              /\ cmdQueue' = cmdQueue
              /\ killed' = killed]_vars

\* C7: if the rule of the new command against a verb is CancelQueued (and the new
\* command is not itself rejected), addCmd sets every not-done waiting command with
\* that verb Cancelled wherever it is in the queue, inserts the new command, and does
\* not invoke killFunc on a running command with that verb.
C7_CancelQueuedCancels ==
    [][\A n \in DOMAIN cmds' :
          (Adds(n) /\ cmds'[n].state # Cancelled) =>
              /\ \A q \in DOMAIN cmds :
                    (Waiting(q) /\ RuleFor(n, q) = CancelQueued) => cmds'[q].state = Cancelled
              /\ n \in Range(cmdQueue')
              /\ \A r \in DOMAIN cmds :
                    (RunningNow(r) /\ RuleFor(n, r) = CancelQueued)
                        => (killed' = killed /\ cmds'[r] = cmds[r])]_vars

\* The queue under the scheduling the event loop gives: a pending queue timer fires,
\* and (the premise of C16) the owner of a started command ends it.
SpecQueueLive ==
    /\ SpecQueue
    /\ WF_vars(\E mode \in RunModes : RunQueue(mode))
    /\ WF_vars(OwnerSetState(Failed))

\* C16: if every command the queue starts eventually reaches a terminal state, every
\* command that addCmd has put in the queue is eventually started by the queue or
\* reaches a terminal state, whether runFunc finishes the command inside its call or
\* later.
C16_EveryCmdServed ==
    \A c \in 1..MaxCmds :
        (c \in DOMAIN cmds /\ c \in Range(cmdQueue))
            ~> (c \in DOMAIN cmds /\ (runCount[c] > 0 \/ IsDoneState(cmds[c].state)))

\* C18: the runFunc of a command is invoked at most once, and only by runQueue in the
\* step in which the queue takes the not-done command from the queue and sets it
\* Running; a command that is terminal while it waits in the queue (or was never put
\* in the queue) never has its runFunc invoked and is never started by the queue.
C18_RunFuncOnce ==
    /\ [](\A c \in DOMAIN cmds : runCount[c] <= 1)
    /\ [][\A c \in DOMAIN cmds :
            /\ runCount'[c] > runCount[c] => (Waiting(c) /\ Starts(c))
            /\ Starts(c) => (Waiting(c) /\ runCount'[c] = runCount[c] + 1
                               /\ cmds'[c].state \in {Running, Done})
            /\ IsDoneState(cmds[c].state) =>
                  (runCount'[c] = runCount[c] /\ ~Starts(c))]_vars

\* the first command was cancelled by its owner while it waited and the queue has
\* dropped it without running it; the second command was run once
C18_Witness ==
    /\ NextId >= 3
    /\ cmds[1].state = Cancelled /\ cmds[1].textMsg = "" /\ runCount[1] = 0
    /\ 1 \notin Range(cmdQueue)
    /\ currExeCmd = 2 /\ runCount[2] = 1

\* C19: runQueue does not run inside addCmd or inside a state-change callback: a step
\* that starts a command or invokes a runFunc is a firing of the queue timer and adds
\* no command; when addCmd returns the added command is Ready or Cancelled, nothing
\* was started or run, and the timer is set if the command was queued; when the
\* running command becomes terminal its callback sets the timer and starts nothing.
C19_RunQueueOnlyScheduled ==
    [][/\ \A n \in DOMAIN cmds' : Adds(n) =>
            /\ cmds'[n].state \in {Ready, Cancelled}
            /\ currExeCmd' = currExeCmd
            /\ runCount'[n] = 0
            /\ \A c \in DOMAIN cmds : runCount'[c] = runCount[c] /\ ~Starts(c)
            /\ \A c \in DOMAIN cmds : cmds'[c].state = Running => cmds[c].state = Running
            /\ n \in Range(cmdQueue') => queueTimer'
       /\ (RunningNow(currExeCmd) /\ IsDoneState(cmds'[currExeCmd].state)) =>
            /\ queueTimer'
            /\ currExeCmd' = currExeCmd
            /\ \A c \in DOMAIN cmds : runCount'[c] = runCount[c]
       /\ (\E c \in DOMAIN cmds : runCount'[c] # runCount[c] \/ Starts(c)) =>
            (queueTimer /\ DOMAIN cmds' = DOMAIN cmds)]_vars

\* the second command has just been added while the first one runs: it is Ready in
\* the queue, nothing was run for it, and the queue timer is set
C19_Witness ==
    /\ NextId = 3
    /\ currExeCmd = 1 /\ cmds[1].state = Running
    /\ cmdQueue = <<2>> /\ cmds[2].state = Ready /\ runCount[2] = 0
    /\ queueTimer

KillPriorityDict ==
    ("kill" :> Immediate) @@ ("meda" :> IntPriority(2)) @@ ("medb" :> IntPriority(2))
InitKill == InitQueue(KillPriorityDict)
SpecKill == InitKill /\ [][NextRules]_vars

\* C17: addCmd never changes the state of the running command itself: when a rule or
\* an Immediate priority requires the running command to die, addCmd only calls
\* killFunc on it (which, here, sets it Cancelled without a message or leaves it as it
\* is), and the queue starts no other command until the running command is terminal.
C17_OnlyKillFunc ==
    [][/\ \A n \in DOMAIN cmds' : Adds(n) =>
            /\ \A r \in DOMAIN cmds : RunningNow(r) =>
                  \/ (cmds'[r].state = cmds[r].state /\ cmds'[r].textMsg = cmds[r].textMsg)
                  \/ (/\ <<r, n>> \in killed' \ killed
                      /\ cmds'[r].state = Cancelled /\ cmds'[r].textMsg = "")
            /\ killed' \ killed \subseteq {<<currExeCmd, n>>}
            /\ killed' # killed =>
                  (priorityDict[cmds'[n].cmdVerb].imm \/ RuleFor(n, currExeCmd) = KillRunning)
       /\ \A c \in DOMAIN cmds : Starts(c) => IsDoneState(cmds[currExeCmd].state)]_vars

\* killFunc was called on the running meda for a new medb and has left it Running;
\* the queue timer has fired since and the medb still waits
C17_Witness ==
    /\ NextId >= 3
    /\ cmds[1].cmdVerb = "meda" /\ cmds[2].cmdVerb = "medb"
    /\ <<1, 2>> \in killed
    /\ currExeCmd = 1 /\ cmds[1].state = Running
    /\ cmdQueue = <<2>> /\ cmds[2].state = Ready
    /\ ~queueTimer

\* the command that killFunc was called on for command n has ended, not-done
\* command n waits, and the queue starts command c
StartsAfterKill(n, c) ==
    /\ Starts(c)
    /\ <<currExeCmd, n>> \in killed
    /\ Waiting(n)

-----------------------------------------------------------------------------
(* CommandQueue.addRule with any arguments                                  *)

\* the actions and the lists of verbs of the addRule calls; "randomCmd" is in no
\* priority table and "badRule" is no action
RuleCallActions == AddActions \cup {"badRule"}
RuleCallVerbs == {"meda", "medb", "randomCmd"}
RuleCallLists == {<<v>> : v \in RuleCallVerbs} \cup {<<"meda", "medb">>}

InitAddRule ==
    /\ InitQueue(RulesPriorityDict)

\* CommandQueue.addRule(action, newCmds, queuedCmds); the call and its outcome are recorded
RuleAddRule(action, newCmds, queuedCmds) ==
    /\ LET res == AddRuleResult(ruleDict, action, newCmds, queuedCmds)
       IN /\ ruleDict' = res.rd
          /\ lastCall' = [op |-> "addRule", cmd |-> 0, raised |-> res.raised,
                          action |-> action, newCmds |-> newCmds, queuedCmds |-> queuedCmds]
    /\ UNCHANGED <<cmds, cmdQueue, currExeCmd, queueTimer, enabled, priorityDict, killed,
                   runCount, linkCalls, swallowed, rcd, cbLog, dev>>

NextAddRule ==
    \E action \in RuleCallActions, newCmds \in RuleCallLists, queuedCmds \in RuleCallLists :
        RuleAddRule(action, newCmds, queuedCmds)

SpecAddRule == InitAddRule /\ [][NextAddRule]_vars

\* the (new verb, queued verb) pairs of the last addRule call
CallPairs(call) ==
    {<<call.newCmds[i], call.queuedCmds[j]>> :
        i \in DOMAIN call.newCmds, j \in DOMAIN call.queuedCmds}
\* a verb of the last addRule call is not in the priority table
CallBadVerb(call) ==
    \/ \E i \in DOMAIN call.newCmds : call.newCmds[i] \notin DOMAIN priorityDict
    \/ \E i \in DOMAIN call.queuedCmds : call.queuedCmds[i] \notin DOMAIN priorityDict

\* C21: an addRule call raises when a verb of newCmds or queuedCmds is not in the
\* priority table, when the action is not CancelNew, CancelQueued or KillRunning, or
\* when a rule is already registered for one of the (new verb, queued verb) pairs
\* of the call; a call with none of these does not raise.
C21_AddRuleRaises ==
    [][lastCall'.op = "addRule" =>
          (lastCall'.raised <=>
              \/ CallBadVerb(lastCall')
              \/ lastCall'.action \notin {CancelNew, CancelQueued, KillRunning}
              \/ CallPairs(lastCall') \cap DOMAIN ruleDict # {})]_vars

\* an addRule call with a good action and known verbs raised for a pair that was
\* already registered
C21_Witness ==
    /\ lastCall.op = "addRule" /\ lastCall.raised
    /\ lastCall.action = CancelQueued
    /\ lastCall.newCmds = <<"medb">> /\ lastCall.queuedCmds = <<"meda">>
    /\ <<"medb", "meda">> \in DOMAIN ruleDict /\ ruleDict[<<"medb", "meda">>] = CancelNew

-----------------------------------------------------------------------------
(* CommandQueue.addCmd of a command whose verb is in no priority table     *)

\* the verbs of the commands that are added without an entry of the priority table
UnrecognizedVerbs == {"randomCmd"}

\* CommandQueue.addCmd(cmd, runFunc) of a new command whose verb is not in
\* priorityDict: the call raises RuntimeError before it touches the queue
AddCmdUnrecognized(verb) ==
    /\ NextId <= MaxCmds
    /\ verb \notin DOMAIN priorityDict
    /\ cmds' = cmds @@ (NextId :> NewCmd(verb, verb))
    /\ runCount' = runCount @@ (NextId :> 0)
    /\ lastCall' = [op |-> "addCmd", cmd |-> NextId, raised |-> TRUE]
    /\ UNCHANGED <<cmdQueue, currExeCmd, queueTimer, enabled, ruleDict, priorityDict, killed,
                   linkCalls, swallowed, rcd, cbLog, dev>>

NextUnrecognized ==
    \/ \E verb \in UnrecognizedVerbs : AddCmdUnrecognized(verb)
    \/ NextQueue

SpecUnrecognized == InitPlain /\ [][NextUnrecognized]_vars

\* C22: addCmd accepts a command whose verb is not in the priority table: the call
\* does not raise and the command is put in the queue behind every waiting command,
\* from where it is started and runs to Done.
C22_UnrecognizedQueued ==
    [][\A n \in DOMAIN cmds' :
          (Adds(n) /\ cmds'[n].cmdVerb \notin DOMAIN priorityDict) =>
              /\ ~(lastCall'.op = "addCmd" /\ lastCall'.cmd = n /\ lastCall'.raised)
              /\ cmdQueue' # <<>> /\ cmdQueue'[1] = n]_vars

-----------------------------------------------------------------------------
(* A new command of higher priority than the running command               *)

\* the new command n of this step has a priority that is not Immediate and is
\* higher than that of the running command
NewIsHigher(n) ==
    LET p == priorityDict[cmds'[n].cmdVerb]
        q == priorityDict[cmds[currExeCmd].cmdVerb]
    IN ~p.imm /\ ~q.imm /\ p.val > q.val

\* the table holds no rule for the new command n against the running command or
\* against a command that waits in the queue
NoRuleFor(n) ==
    /\ RuleFor(n, currExeCmd) = NoRule
    /\ \A q \in Range(cmdQueue) : RuleFor(n, q) = NoRule

\* C23: with no rule for the verbs and a priority that is not Immediate, addCmd of a
\* command whose priority is higher than that of the running command does not call
\* killFunc and changes the state of no other command; the new command waits in the
\* queue, and the queue starts a command only when the running command is terminal.
C23_HigherDoesNotPreempt ==
    [][/\ \A n \in DOMAIN cmds' :
            (Adds(n) /\ RunningNow(currExeCmd) /\ NewIsHigher(n) /\ NoRuleFor(n)) =>
                /\ killed' = killed
                /\ \A c \in DOMAIN cmds : cmds'[c] = cmds[c]
                /\ currExeCmd' = currExeCmd
                /\ cmds'[n].state = Ready /\ n \in Range(cmdQueue')
                /\ runCount'[n] = 0
       /\ \A c \in DOMAIN cmds : Starts(c) => IsDoneState(cmds[currExeCmd].state)]_vars

\* a medb command ran to Done although a hia command was added while it ran; the hia
\* command was started after it
C23_Witness ==
    /\ NextId >= 3
    /\ cmds[1].cmdVerb = "medb" /\ cmds[1].state = Done /\ runCount[1] = 1
    /\ cmds[2].cmdVerb = "hia" /\ currExeCmd = 2 /\ cmds[2].state = Running
    /\ killed = {}
    /\ ruleDict # << >>

-----------------------------------------------------------------------------
(* The message of a failed fan-out                                          *)

\* the slots of the fan-out whose device command failed or was cancelled
FailedSlots == {s \in rcd.cmdDict : cmds[s].state \in {Cancelled, Failed}}

RECURSIVE JoinErrs(_, _)
\* the messages of the commands of a set of slots joined by "; " in slot order
JoinErrs(slots, from) ==
    IF \A s \in slots : s < from THEN ""
    ELSE IF from \in slots
         THEN cmds[from].textMsg \o (IF \E s \in slots : s > from THEN "; " ELSE "")
                  \o JoinErrs(slots, from + 1)
         ELSE JoinErrs(slots, from + 1)

\* the messages of the failed slots, as one message if they are all the same
ErrsOfFailed ==
    IF \A s, t \in FailedSlots : cmds[s].textMsg = cmds[t].textMsg
    THEN (IF FailedSlots = {} THEN ""
          ELSE cmds[CHOOSE s \in FailedSlots : TRUE].textMsg)
    ELSE JoinErrs(FailedSlots, 1)

\* C24: when the fan-out (without callFunc, or with a callFunc that returns None) ends
\* the user command Failed, the message of the user command names exactly the slots
\* whose command failed and holds the message of the command of each failed slot, as
\* one message only if these messages are all the same.
C24_FailedMsg ==
    (cmds[UserCmdId].state = Failed /\ rcd.callFunc \in {"none", "ignore"}) =>
        cmds[UserCmdId].textMsg =
            "'" \o cmds[UserCmdId].cmdStr \o "' failed for "
                \o JoinSlots(FailedSlots, 1) \o ": " \o ErrsOfFailed

-----------------------------------------------------------------------------
(* callFunc of a fan-out                                                    *)

\* a fan-out over one slot whose callFunc starts a follow-up command whenever it
\* is called with a command that did not fail
InitChain ==
    /\ \E newState \in StartCmdStates, st \in [{1} -> StartCmdStates] :
          LET w == RunCmdDictInit({1}, "chain", newState, st)
          IN /\ cmds = w.cmds
             /\ rcd = w.rcd
             /\ swallowed = w.swallowed
    /\ QueueIdleNoRcd
    /\ linkCalls = 0
    /\ lastCall = NoCall
    /\ cbLog = <<>>

SpecChain == InitChain /\ [][NextDevSet]_vars

\* the commands that callFunc started and returned
NewDevCmds == DOMAIN cmds \ (0..NumSlots)

\* C25: if callFunc returned a new device command for a slot, the fan-out does not
\* end the user command while that new command is not done, and callFunc is never
\* called with the new command.
C25_NewCmdAwaited ==
    /\ [](NewDevCmds \cap rcd.called = {})
    /\ [][(lastCall'.cmd # UserCmdId /\ ~UserCmdDone /\ UserCmdDone') =>
              \A c \in DOMAIN cmds' \ (0..NumSlots) :
                  cmds'[c].state \in {Done, Cancelled, Failed}]_vars

\* C26: callFunc is called for a slot only with a device command that is done
\* (succeeded or failed), hence at most once with each device command that
\* startCmdDict started.
C26_CallFuncWhenDone ==
    rcd.early = {}

-----------------------------------------------------------------------------
(* DeviceSet.startCmdDict: the checks of the slots and of the user command  *)

\* the device set has the filled slots 1..NumSlots and one more slot without a
\* device; one further slot name is in no slot list
EmptySlots == {NumSlots + 1}
UnknownSlots == {NumSlots + 2}
SlotNames == (1..NumSlots) \cup EmptySlots \cup UnknownSlots
\* the states of the user command that startCmdDict is given
UserCmdStates == {Ready, Running, Done, Failed}

\* a device set that takes any slot name
AnySlotList(slotList) == FALSE

\* DeviceSet.checkSlotList raises RuntimeError
CheckSlotListRaises(slotList) ==
    \/ slotList \cap UnknownSlots # {}
    \/ slotList \cap EmptySlots # {}

\* expandUserCmd raises RuntimeError
ExpandUserCmdRaises(w, userCmd) == IsDone(w, userCmd)

InitStart ==
    /\ \E st \in UserCmdStates : cmds = (UserCmdId :> [NewCmd("move", "") EXCEPT !.state = st])
    /\ rcd = NoRcd
    /\ swallowed = 0
    /\ QueueIdleNoRcd
    /\ linkCalls = 0
    /\ lastCall = NoCall
    /\ cbLog = <<>>

\* DeviceSet.startCmdDict(cmdDict, callFunc, userCmd) for the user command, where
\* st gives the state of the command that startCmd returns for each slot
StartCmdDict(cmdDict, callFunc, st) ==
    /\ rcd = NoRcd
    /\ IF CheckSlotListRaises(cmdDict) \/ ExpandUserCmdRaises(World, UserCmdId)
       THEN /\ lastCall' = [op |-> "startCmdDict", cmd |-> UserCmdId, raised |-> TRUE,
                            cmdDict |-> cmdDict]
            /\ UNCHANGED <<cmds, rcd, swallowed>>
       ELSE LET w == RunCmdDictOn(cmds[UserCmdId], cmdDict, callFunc, Ready, st)
            IN /\ cmds' = w.cmds
               /\ rcd' = w.rcd
               /\ swallowed' = w.swallowed
               /\ lastCall' = [op |-> "startCmdDict", cmd |-> UserCmdId, raised |-> FALSE,
                               cmdDict |-> cmdDict]
    /\ UNCHANGED <<cmdQueue, currExeCmd, queueTimer, enabled, ruleDict, priorityDict, killed,
                   runCount, linkCalls, cbLog, dev>>

NextStart ==
    \/ \E cmdDict \in SUBSET SlotNames, callFunc \in {"none", "ignore"} :
          \E st \in [cmdDict \cap (1..NumSlots) -> StartCmdStates] :
              StartCmdDict(cmdDict, callFunc, st)
    \/ NextDevSet

SpecStart == InitStart /\ [][NextStart]_vars

\* C27: startCmdDict with a cmdDict that names an empty or an unknown slot, or with
\* a user command that is already done, raises an error, starts no device command
\* and changes the state of no command; any other call does not raise.
C27_StartCmdDictRaises ==
    [][lastCall'.op = "startCmdDict" =>
          /\ lastCall'.raised <=>
                \/ lastCall'.cmdDict \cap (EmptySlots \cup UnknownSlots) # {}
                \/ cmds[UserCmdId].state \in {Done, Cancelled, Failed}
          /\ lastCall'.raised => (cmds' = cmds /\ rcd' = rcd)
          /\ ~lastCall'.raised => DOMAIN cmds' = {UserCmdId} \cup lastCall'.cmdDict]_vars

\* a call for a filled slot and the empty slot raised and left the Ready user
\* command alone
C27_Witness ==
    /\ lastCall = [op |-> "startCmdDict", cmd |-> UserCmdId, raised |-> TRUE,
                   cmdDict |-> {1} \cup EmptySlots]
    /\ DOMAIN cmds = {UserCmdId} /\ cmds[UserCmdId].state = Ready
    /\ rcd = NoRcd

\* a call for filled slots with a user command that was done raised
C27_WitnessDone ==
    /\ lastCall = [op |-> "startCmdDict", cmd |-> UserCmdId, raised |-> TRUE,
                   cmdDict |-> {1, 2}]
    /\ DOMAIN cmds = {UserCmdId} /\ cmds[UserCmdId].state = Done

-----------------------------------------------------------------------------
(* Device.connect and Device.disconnect: ConnectDevice and DisconnectDevice *)
(* for one device and the user command 0.  The connection (RO.Comm) and     *)
(* the device's init are the environment: the connection changes state and  *)
(* calls its state callbacks, and the device sets the state of the user     *)
(* command it was given for init.                                           *)

\* how dev.init treats the user command it is given: it leaves it Ready and sets its
\* state later, or it has failed when init returns
InitModes == {"later", "failed"}

\* dev.init(userCmd=initUserCmd), for a new user command with the callback cb
DevInit(w, cb, initMode) ==
    LET n == Cardinality(DOMAIN w.cmds)
        w1 == [w EXCEPT !.cmds = @ @@ (n :> [NewCmd("init", "") EXCEPT !.callbacks = <<cb>>]),
                        !.dev.initCmd = n,
                        !.dev.nInit = @ + 1]
    IN IF initMode = "failed" THEN SetState(w1, n, Failed, "init failed", "").w ELSE w1

\* ConnectDevice.connCallback(conn)
ConnectConnCallback(w, initMode) ==
    IF ConnIsConnected(w) THEN DevInit(w, ConnInitCb, initMode) ELSE w

\* DisconnectDevice.connCallback(conn)
DisconnectConnCallback(w) ==
    IF ConnIsDone(w) THEN [w EXCEPT !.dev.nFinish = @ + 1] ELSE w

\* ConnectDevice.finish
ConnectFinish(w) ==
    LET w1 == [w EXCEPT !.dev.connTimer = FALSE, !.dev.stateCb = FALSE]
    IN IF ~ConnIsConnected(w1)
       THEN ConnDisconnect(IF ~IsDone(w1, UserCmdId)
                           THEN SetState(w1, UserCmdId, Failed, "dev failed to connect", "").w
                           ELSE w1)
       ELSE IF ~IsDone(w1, UserCmdId)
            THEN SetState(w1, UserCmdId, Done, PyNone, PyNone).w
            ELSE w1

\* DisconnectDevice.finish
DisconnectFinish(w) ==
    LET w1 == [w EXCEPT !.dev.connTimer = FALSE, !.dev.stateCb = FALSE]
        w2 == IF IsDone(w1, UserCmdId) THEN w1
              ELSE IF ~ConnIsDone(w1) \/ ConnIsConnected(w1)
                   THEN SetState(w1, UserCmdId, Failed, "dev failed to disconnect", "").w
                   ELSE SetState(w1, UserCmdId, Done, PyNone, PyNone).w
    IN [w2 EXCEPT !.dev.cleanedUp = TRUE]

\* self.finish of the object at work
Finish(w) ==
    IF w.dev.op = "connect" THEN ConnectFinish(w) ELSE DisconnectFinish(w)

\* the device, whose connection is in any state, and a user command that may be done
InitDev ==
    /\ \E st \in UserCmdStates :
          cmds = (UserCmdId :> [NewCmd("connect", "") EXCEPT !.state = st])
    /\ \E cs \in ConnStates : dev = [NoDev EXCEPT !.conn = cs, !.startConn = cs]
    /\ cmdQueue = <<>>
    /\ currExeCmd = 0
    /\ queueTimer = FALSE
    /\ enabled = TRUE
    /\ ruleDict = << >>
    /\ priorityDict = << >>
    /\ killed = {}
    /\ runCount = << >>
    /\ rcd = NoRcd
    /\ swallowed = 0
    /\ linkCalls = 0
    /\ lastCall = NoCall
    /\ cbLog = <<>>

DevUnchanged ==
    UNCHANGED <<cmdQueue, currExeCmd, ruleDict, priorityDict, killed, runCount>>

\* ConnectDevice(dev, userCmd, timeLim) for the user command
ConnectDeviceInit(timeLim) ==
    /\ dev.op = "none"
    /\ IF ExpandUserCmdRaises(World, UserCmdId)
       THEN /\ lastCall' = [op |-> "ConnectDevice", cmd |-> UserCmdId, raised |-> TRUE]
            /\ Commit(World)
       ELSE LET w0 == [World EXCEPT !.dev.op = "connect", !.dev.timeLim = timeLim,
                                    !.dev.startConn = dev.conn]
                w1 == [w0 EXCEPT !.dev.stateCb = TRUE]
            IN /\ lastCall' = [op |-> "ConnectDevice", cmd |-> UserCmdId, raised |-> FALSE]
               /\ Commit(IF ConnIsConnected(w0) THEN ConnectFinish(w0)
                         ELSE IF ConnMayConnect(w1)
                              THEN [w1 EXCEPT !.dev.conn = Connecting,
                                              !.dev.nConnect = @ + 1]
                              ELSE [w1 EXCEPT !.dev.connTimer = timeLim])
    /\ DevUnchanged

\* DisconnectDevice(dev, userCmd, timeLim) for the user command
DisconnectDeviceInit(timeLim, initMode) ==
    /\ dev.op = "none"
    /\ IF ExpandUserCmdRaises(World, UserCmdId)
       THEN /\ lastCall' = [op |-> "DisconnectDevice", cmd |-> UserCmdId, raised |-> TRUE]
            /\ Commit(World)
       ELSE LET w0 == [World EXCEPT !.dev.op = "disconnect", !.dev.timeLim = timeLim,
                                    !.dev.startConn = dev.conn]
            IN /\ lastCall' = [op |-> "DisconnectDevice", cmd |-> UserCmdId, raised |-> FALSE]
               /\ Commit(IF ~ConnIsConnected(w0) THEN DisconnectInitCallback(w0, 0)
                         ELSE DevInit(w0, DiscInitCb, initMode))
    /\ DevUnchanged

\* the state changes the connection makes by itself
ConnNextStates(cs) ==
    CASE cs = Connecting -> {Connected, ConnFailed}
      [] cs = Disconnecting -> {Disconnected}
      [] cs = Connected -> {Disconnected, ConnFailed}
      [] OTHER -> {}

\* the connection changes state and calls its state callbacks
ConnStateChange(newState, initMode) ==
    /\ dev.op # "none"
    /\ newState \in ConnNextStates(dev.conn)
    /\ LET w1 == [World EXCEPT !.dev.conn = newState]
       IN Commit(IF ~dev.stateCb THEN w1
                 ELSE IF dev.op = "connect" THEN ConnectConnCallback(w1, initMode)
                 ELSE DisconnectConnCallback(w1))
    /\ lastCall' = [op |-> "connState", cmd |-> 0, raised |-> FALSE]
    /\ DevUnchanged

\* the device sets the state of the user command it was given for init
InitSetState(newState) ==
    /\ dev.initCmd # 0
    /\ ~IsDone(World, dev.initCmd)
    /\ newState = Running => cmds[dev.initCmd].state = Ready
    /\ Commit(SetState(World, dev.initCmd, newState, DevTextMsg(dev.initCmd, newState), "").w)
    /\ lastCall' = [op |-> "initSetState", cmd |-> dev.initCmd, raised |-> FALSE]
    /\ DevUnchanged

\* _connTimer fires
ConnTimerFires ==
    /\ dev.connTimer
    /\ Commit(Finish(World))
    /\ lastCall' = [op |-> "connTimer", cmd |-> UserCmdId, raised |-> FALSE]
    /\ DevUnchanged

\* a Timer(0, self.finish) fires
FinishTimerFires ==
    /\ dev.nFinish > 0
    /\ Commit(Finish([World EXCEPT !.dev.nFinish = @ - 1]))
    /\ lastCall' = [op |-> "finishTimer", cmd |-> UserCmdId, raised |-> FALSE]
    /\ DevUnchanged

NextDev ==
    \/ \E timeLim \in BOOLEAN : ConnectDeviceInit(timeLim)
    \/ \E timeLim \in BOOLEAN, initMode \in InitModes : DisconnectDeviceInit(timeLim, initMode)
    \/ \E newState \in ConnStates, initMode \in InitModes : ConnStateChange(newState, initMode)
    \/ \E newState \in DevCallStates : InitSetState(newState)
    \/ ConnTimerFires
    \/ FinishTimerFires

SpecDev == InitDev /\ [][NextDev]_vars

\* C28: a ConnectDevice made while the connection is connected has set its user
\* command Done when the constructor returns and has called neither dev.init nor
\* conn.connect; a DisconnectDevice made while the connection is fully disconnected
\* calls neither dev.init nor conn.disconnect, and its user command is Done as soon
\* as the finish it has scheduled has run.
C28_AlreadyThere ==
    /\ (dev.op = "connect" /\ dev.startConn = Connected) =>
          /\ cmds[UserCmdId].state = Done
          /\ dev.nInit = 0 /\ dev.nConnect = 0
    /\ (dev.op = "disconnect" /\ dev.startConn \in {Disconnected, ConnFailed}) =>
          /\ dev.nInit = 0 /\ dev.nDisconnect = 0
          /\ IF dev.nFinish > 0 THEN ~IsDone(World, UserCmdId)
             ELSE cmds[UserCmdId].state = Done

\* a ConnectDevice was made for a connected device and a Running user command
C28_Witness ==
    /\ lastCall = [op |-> "ConnectDevice", cmd |-> UserCmdId, raised |-> FALSE]
    /\ dev.startConn = Connected /\ dev.conn = Connected
    /\ cmds[UserCmdId].state = Done

\* a DisconnectDevice was made for a disconnected device and its finish has run
C28_WitnessDisconnect ==
    /\ lastCall.op = "finishTimer"
    /\ dev.op = "disconnect" /\ dev.startConn = Disconnected
    /\ cmds[UserCmdId].state = Done /\ dev.cleanedUp

\* the ConnectDevice of a device that was not connected has started init and init
\* has not finished
InitUnderWay ==
    /\ dev.op = "connect" /\ dev.startConn # Connected
    /\ dev.initCmd # 0 /\ ~IsDone(World, dev.initCmd)

\* the init of the ConnectDevice of a device that was not connected has failed
InitFailed ==
    /\ dev.op = "connect" /\ dev.startConn # Connected
    /\ dev.initCmd # 0 /\ DidFail(World, dev.initCmd)

\* C29: the connect command of a device that was not connected is not terminal
\* while the init started at the connection is under way; once that init has failed
\* the connect command, when it ends, is Failed, and the finish that ends it leaves a
\* connected connection connected.
C29_ConnectAwaitsInit ==
    [][/\ InitUnderWay' => ~IsDoneState(cmds'[UserCmdId].state)
       /\ (InitFailed' /\ IsDoneState(cmds'[UserCmdId].state)) =>
             cmds'[UserCmdId].state = Failed
       /\ (InitFailed /\ dev.conn = Connected /\ lastCall'.op = "finishTimer") =>
             dev'.conn = Connected]_vars

\* a DisconnectDevice was made for a connected device
DisconnectsConnected == dev.op = "disconnect" /\ dev.startConn = Connected

\* C30: a DisconnectDevice made for a connected device has called dev.init, and it
\* calls conn.disconnect only when the init command is done; when init has failed
\* while the connection was still up, conn.disconnect has been called; and a finish
\* that finds the connection fully disconnected sets the disconnect command Done.
C30_DisconnectAfterInit ==
    [][DisconnectsConnected' =>
          /\ dev'.nInit = 1
          /\ ~dev'.discEarly
          /\ DidFail(World, dev.initCmd)' => dev'.conn # Connected
          /\ (/\ lastCall'.op \in {"finishTimer", "connTimer"}
              /\ ~IsDone(World, UserCmdId)
              /\ dev'.conn \in {Disconnected, ConnFailed}) => cmds'[UserCmdId].state = Done]_vars

-----------------------------------------------------------------------------
(* ConnectDevice and DisconnectDevice under the scheduling of the event     *)
(* loop: a pending timer fires, a connection that is connecting or          *)
(* disconnecting settles, and the device ends the init command it was given. *)

ConnSettles ==
    /\ dev.conn \in {Connecting, Disconnecting}
    /\ \E newState \in ConnStates, initMode \in InitModes : ConnStateChange(newState, initMode)

InitEnds ==
    \E newState \in {Done, Failed} : InitSetState(newState)

SpecDevLive ==
    /\ SpecDev
    /\ WF_vars(ConnTimerFires)
    /\ WF_vars(FinishTimerFires)
    /\ WF_vars(ConnSettles)
    /\ WF_vars(InitEnds)

\* the connection is in the state the operation at work asks for
ConnAsRequested ==
    IF dev.op = "connect" THEN dev.conn = Connected
    ELSE dev.conn \in {Disconnected, ConnFailed}

\* C31: the user command of a ConnectDevice or DisconnectDevice made with a time
\* limit eventually is terminal; when the time limit expires and the connection is
\* not in the requested state the command, if not yet terminal, is set Failed; and
\* a terminal user command is not set again.
C31_TimeLimitEnds ==
    /\ (dev.op # "none" /\ dev.timeLim) ~> IsDone(World, UserCmdId)
    /\ [][/\ (lastCall'.op = "connTimer" /\ ~ConnAsRequested /\ ~IsDone(World, UserCmdId))
                => cmds'[UserCmdId].state = Failed
          /\ IsDone(World, UserCmdId) => cmds'[UserCmdId] = cmds[UserCmdId]]_vars

-----------------------------------------------------------------------------
(* The time limit of a command: NumCmds commands made with or without a     *)
(* time limit, on which the owner calls setState with any state and         *)
(* setTimeLimit, and whose timeout timers fire.                             *)

\* BaseCmd.setTimeLimit: the call self._timeoutTimer.start is made
StartsTimer(w, c, timeLim) == timeLim /\ w.cmds[c].timer

\* BaseCmd.setTimeLimit(timeLim); timeLim is FALSE for None or 0
SetTimeLimit(w, c, timeLim) ==
    [w EXCEPT !.cmds[c].timeLim = timeLim,
              !.cmds[c].timer = IF timeLim THEN StartsTimer(w, c, timeLim) ELSE FALSE]

InitTime ==
    /\ \E tl \in [1..NumCmds -> BOOLEAN] :
          cmds = [c \in 1..NumCmds |-> SetTimeLimit([cmds |-> [d \in 1..NumCmds |-> NewCmd("cmd", "")]],
                                                    c, tl[c]).cmds[c]]
    /\ QueueIdle
    /\ linkCalls = 0
    /\ swallowed = 0
    /\ lastCall = NoCall
    /\ cbLog = <<>>

\* the owner calls c.setTimeLimit(timeLim)
TimeSetTimeLimit(c, timeLim) ==
    /\ Commit(SetTimeLimit(World, c, timeLim))
    /\ lastCall' = [op |-> "setTimeLimit", cmd |-> c, raised |-> FALSE, timeLim |-> timeLim,
                    started |-> StartsTimer(World, c, timeLim)]
    /\ UNCHANGED <<cmdQueue, currExeCmd, ruleDict, priorityDict, killed, runCount>>

\* the owner calls c.setState(newState)
TimeSetState(c, newState) ==
    LET res == SetState(World, c, newState, "", "") IN
    /\ Commit(res.w)
    /\ lastCall' = [op |-> "setState", cmd |-> c, raised |-> res.raised]
    /\ UNCHANGED <<cmdQueue, currExeCmd, ruleDict, priorityDict, killed, runCount>>

\* the timeout timer of command c fires while it is pending
TimeTimeoutFires(c) ==
    /\ cmds[c].timer
    /\ LET res == Timeout([World EXCEPT !.cmds[c].timer = FALSE], c) IN
       /\ Commit(res.w)
       /\ lastCall' = [op |-> "timeout", cmd |-> c, raised |-> res.raised]
    /\ UNCHANGED <<cmdQueue, currExeCmd, ruleDict, priorityDict, killed, runCount>>

NextTime ==
    \/ \E c \in DOMAIN cmds, timeLim \in BOOLEAN : TimeSetTimeLimit(c, timeLim)
    \/ \E c \in DOMAIN cmds, newState \in AllStates : TimeSetState(c, newState)
    \/ \E c \in DOMAIN cmds : TimeTimeoutFires(c)

SpecTime == InitTime /\ [][NextTime]_vars

\* C32: the timeout timer of a command is pending only if the command has a time
\* limit and is Running, Cancelling or Failing.
C32_TimerOnlyWhenActive ==
    \A c \in DOMAIN cmds :
        cmds[c].timer => (cmds[c].timeLim /\ cmds[c].state \in ActiveStates)

\* C33: setTimeLimit with a positive limit on a Running command starts the timeout
\* timer in that call, whether or not the timer was pending, so that the timer is
\* pending afterwards; on a Ready command it starts no timer.
C33_SetTimeLimitRestarts ==
    [][\A c \in DOMAIN cmds :
          (lastCall'.op = "setTimeLimit" /\ lastCall'.cmd = c /\ lastCall'.timeLim) =>
              /\ cmds[c].state = Running => (lastCall'.started /\ cmds'[c].timer)
              /\ cmds[c].state = Ready => (~lastCall'.started /\ ~cmds'[c].timer)]_vars

\* C34: no successful setState call sets a command that is Running, Cancelling or
\* Failing to Ready.
C34_ReadyOnlyAtCreation ==
    [][\A c \in DOMAIN cmds :
          cmds[c].state \in ActiveStates => cmds'[c].state # Ready]_vars

-----------------------------------------------------------------------------
(* Device.startCmdList: one RunCmdList for a list of up to MaxList commands *)
(* and the user command 0, which is Ready or Running and is set by the      *)
(* RunCmdList alone.  The device sets the state of the command it was       *)
(* given, and the connection may be lost.                                   *)

MaxList == 3

\* Device.startCmd(cmdStr, callFunc=self.cmdCallback) for command idx of the list;
\* writeOk: conn.writeLine does not raise
RclStartCmd(w, idx, writeOk) ==
    LET n == Cardinality(DOMAIN w.cmds)
        cmdStr == "cmd" \o ToString(idx)
        w1 == [w EXCEPT !.cmds = @ @@ (n :> [NewCmd(cmdStr, "") EXCEPT !.callbacks = <<ListCb>>]),
                        !.dev.started = Append(@, <<idx, n>>),
                        !.dev.pendingStart = 0]
    IN IF w.dev.conn # Connected
       THEN SetState(w1, n, Failed, "dev " \o cmdStr \o " failed: not connected", "").w
       ELSE IF ~writeOk
       THEN SetState(w1, n, Failed, "dev " \o cmdStr \o " failed: write", "").w
       ELSE w1

InitList ==
    /\ \E st \in {Ready, Running} :
          cmds = (UserCmdId :> [NewCmd("user", "") EXCEPT !.state = st])
    /\ \E cs \in {Connected, Disconnected} : dev = NoRcl(cs)
    /\ cmdQueue = <<>>
    /\ currExeCmd = 0
    /\ queueTimer = FALSE
    /\ enabled = TRUE
    /\ ruleDict = << >>
    /\ priorityDict = << >>
    /\ killed = {}
    /\ runCount = << >>
    /\ rcd = NoRcd
    /\ swallowed = 0
    /\ linkCalls = 0
    /\ lastCall = NoCall
    /\ cbLog = <<>>

\* RunCmdList(dev, cmdList, callFunc, userCmd, timeLim) for a list of n commands
RunCmdListInit(n, hasUserCmd, writeOk) ==
    /\ ~dev.made
    /\ IF n = 0
       THEN /\ lastCall' = [op |-> "RunCmdList", cmd |-> 0, raised |-> TRUE]
            /\ Commit([World EXCEPT !.dev.made = TRUE])
       ELSE /\ lastCall' = [op |-> "RunCmdList", cmd |-> 0, raised |-> FALSE]
            /\ Commit(RclStartCmd([World EXCEPT !.dev.made = TRUE, !.dev.cmdList = n,
                                                !.dev.hasUserCmd = hasUserCmd,
                                                !.dev.nextIdx = 2], 1, writeOk))
    /\ DevUnchanged

\* the timer Timer(0, self._startCmd, cmdStr) fires: RunCmdList._startCmd(cmdStr)
StartTimerFires(writeOk) ==
    /\ dev.pendingStart # 0
    /\ Commit(RclStartCmd(World, dev.pendingStart, writeOk))
    /\ lastCall' = [op |-> "_startCmd", cmd |-> dev.pendingStart, raised |-> FALSE]
    /\ DevUnchanged

\* the device sets the state of a device command of the list
ListDevSetState(c, newState) ==
    /\ c # UserCmdId
    /\ ~IsDone(World, c)
    /\ newState = Running => cmds[c].state = Ready
    /\ Commit(SetState(World, c, newState,
                       IF newState \in FailedStates THEN "dev " \o cmds[c].cmdStr \o " " \o newState
                       ELSE "", "").w)
    /\ lastCall' = [op |-> "devSetState", cmd |-> c, raised |-> FALSE]
    /\ DevUnchanged

\* the connection of the device is lost
ListConnLost ==
    /\ dev.made
    /\ dev.conn = Connected
    /\ Commit([World EXCEPT !.dev.conn = Disconnected])
    /\ lastCall' = [op |-> "connLost", cmd |-> 0, raised |-> FALSE]
    /\ DevUnchanged

NextList ==
    \/ \E n \in 0..MaxList, hasUserCmd \in BOOLEAN, writeOk \in BOOLEAN :
          RunCmdListInit(n, hasUserCmd, writeOk)
    \/ \E writeOk \in BOOLEAN : StartTimerFires(writeOk)
    \/ \E c \in DOMAIN cmds, newState \in DevCallStates : ListDevSetState(c, newState)
    \/ ListConnLost

SpecList == InitList /\ [][NextList]_vars

\* the device command of the i-th call of dev.startCmd
StartedCmd(i) == cmds[dev.started[i][2]]

C35_WitnessFailed ==
    /\ dev.made /\ dev.hasUserCmd /\ dev.cmdList = MaxList
    /\ Len(dev.started) = 2
    /\ cmds[2].state = Failed
    /\ cmds[UserCmdId].state = Failed /\ cmds[UserCmdId].textMsg = cmds[2].textMsg

-----------------------------------------------------------------------------
(* Tracking with untrackCmd: the commands of the tracking specification, on *)
(* which the owner also calls untrackCmd.                                   *)

\* BaseCmd.untrackCmd of command a
UntrackCmd(w, a) ==
    IF w.cmds[a].cmdToTrack # 0
    THEN [AddCallback(w, w.cmds[a].cmdToTrack, TrackCb(a)) EXCEPT !.cmds[a].cmdToTrack = 0]
    ELSE w

\* a.untrackCmd() is called
TrackUntrackCmd(a) ==
    /\ Commit(UntrackCmd([World EXCEPT !.cbLog = <<>>, !.trace = TRUE], a))
    /\ lastCall' = [op |-> "untrackCmd", cmd |-> a, raised |-> FALSE]
    /\ UNCHANGED <<cmdQueue, currExeCmd, ruleDict, priorityDict, killed, runCount>>

NextUntrack ==
    \/ NextTrack
    \/ \E a \in DOMAIN cmds : TrackUntrackCmd(a)

SpecUntrack == InitTrack /\ [][NextUntrack]_vars

\* C36: a setState call on a command b does not change the state or the messages of
\* another command a that tracks no command (it never tracked one, or untrackCmd was
\* called on it); and untrackCmd on a command that tracks nothing changes nothing.
C36_UntrackStops ==
    [][\A a \in DOMAIN cmds :
          /\ (lastCall'.op = "setState" /\ lastCall'.cmd # a /\ cmds[a].cmdToTrack = 0) =>
                /\ cmds'[a].state = cmds[a].state
                /\ cmds'[a].textMsg = cmds[a].textMsg
                /\ cmds'[a].hubMsg = cmds[a].hubMsg
          /\ (lastCall'.op = "untrackCmd" /\ lastCall'.cmd = a /\ cmds[a].cmdToTrack = 0) =>
                cmds' = cmds]_vars

\* every callback of every command is a tracking callback
OnlyTrackCbs ==
    \A c \in DOMAIN cmds : \A i \in DOMAIN cmds[c].callbacks : cmds[c].callbacks[i].kind = "track"

\* C37: a successful setState call on a command, when the only callbacks are
\* tracking callbacks, makes no setState call that raises: no tracking callback
\* attempts setState on a tracking command that is already terminal.
C37_DoneTrackerUnlinked ==
    [][(lastCall'.op = "setState" /\ ~lastCall'.raised /\ OnlyTrackCbs) =>
          swallowed' = swallowed]_vars

\* C38: when the main command of a link is terminal, a state change of a
\* sub-command makes the link call setState on the main command no more, and no
\* error is raised in the callbacks of the sub-command.
C38_LinkLeavesDoneMain ==
    [][(/\ lastCall'.op = "setState" /\ lastCall'.cmd # LinkMain
        /\ IsDoneState(cmds[LinkMain].state)) =>
          /\ linkCalls' = linkCalls
          /\ swallowed' = swallowed]_vars

\* C39: an addRule call that raises leaves the rule table as it was: getRule gives
\* the same value for every pair of verbs as before the call.
C39_RejectedRuleNoChange ==
    [][(lastCall'.op = "addRule" /\ lastCall'.raised) => ruleDict' = ruleDict]_vars

-----------------------------------------------------------------------------
(* killAll with callbacks that call addCmd: a queue without rules, commands  *)
(* of integer priority whose owner may have registered a callback that      *)
(* resubmits the command when it has failed.  The commands are failed by    *)
(* killAll alone: the owner ends the running command Done.                  *)

RECURSIVE InsortAll(_, _, _)
\* addCmd of the commands `added', in order: insort_left of each
InsortAll(w, q, added) ==
    IF added = <<>> THEN q
    ELSE InsortAll(w, InsortLeft(w, q, Head(added)), Tail(added))

\* addCmd(cmd, runFunc) of a new command of integer priority; withCb: the owner has
\* registered the resubmitting callback on it
KaAddCmd(verb, withCb) ==
    /\ NextId <= MaxCmds
    /\ verb \in DOMAIN priorityDict
    /\ ~IsImmediate(priorityDict[verb])
    /\ LET n == NextId
           cmd == [NewCmd(verb, verb) EXCEPT !.callbacks = IF withCb THEN <<RequeueCb>> ELSE <<>>]
           r == AddCmdChecks([World EXCEPT !.cmds = @ @@ (n :> cmd)], n, "later")
       IN /\ Commit(IF r.queued THEN ScheduleRunQueueNow(r.w) ELSE r.w)
          /\ cmdQueue' = IF r.queued THEN InsortLeft(r.w, cmdQueue, n) ELSE cmdQueue
          /\ runCount' = runCount @@ (n :> 0)
          /\ lastCall' = [op |-> "addCmd", cmd |-> n, raised |-> FALSE]
    /\ UNCHANGED <<currExeCmd, ruleDict, priorityDict, killed>>

\* the queue timer fires; the runFunc leaves the command Running
KaRunQueue ==
    /\ RunQueue("later")
    /\ lastCall' = lastCall

\* the owner of the running command ends it Done
KaOwnerDone ==
    /\ OwnerSetState(Done)
    /\ lastCall' = lastCall

\* CommandQueue.killAll(): the commands that callbacks give to addCmd while the queued
\* commands are failed are lost with self.cmdQueue = []; those given while the running
\* command is failed are put in the emptied queue
KaKillAll ==
    /\ LET w0 == [World EXCEPT !.enabled = FALSE]
           w1 == FailAllQueued(w0, cmdQueue)
           w2 == IF ~IsDone(w1, currExeCmd)
                 THEN SetState([w1 EXCEPT !.adds = <<>>], currExeCmd, Failed, "disconnected",
                               PyNone).w
                 ELSE [w1 EXCEPT !.adds = <<>>]
       IN /\ Commit([w2 EXCEPT !.enabled = TRUE])
          /\ cmdQueue' = InsortAll(w2, <<>>, w2.adds)
          /\ runCount' = [c \in DOMAIN w2.cmds |-> IF c \in DOMAIN runCount THEN runCount[c] ELSE 0]
          /\ lastCall' = [op |-> "killAll", cmd |-> 0, raised |-> FALSE]
    /\ UNCHANGED <<currExeCmd, ruleDict, priorityDict, killed>>

NextKillAdd ==
    \/ \E verb \in DOMAIN priorityDict, withCb \in BOOLEAN : KaAddCmd(verb, withCb)
    \/ KaRunQueue
    \/ KaOwnerDone
    \/ KaKillAll

SpecKillAdd == InitPlain /\ [][NextKillAdd]_vars

\* C40: when killAll returns, every command that addCmd has accepted and that the
\* queue has not started is terminal, also one that a callback added during the
\* call, and every command that is still Ready is in the queue.
C40_KillAllLeavesNone ==
    [][KaKillAll =>
          \A c \in DOMAIN cmds' \ {0} :
              /\ runCount'[c] = 0 => IsDoneState(cmds'[c].state)
              /\ cmds'[c].state = Ready => c \in Range(cmdQueue')]_vars

====
